---- MODULE Spec2Model ----
(***************************************************************************)
(* Model of the Curve Control data collection integration:                 *)
(*   CurveControlDataCollector  (data_collector.py)   state-change handler *)
(*                                                    and HVAC cycle       *)
(*                                                    tracker              *)
(*   DailyDataAggregator        (daily_aggregator.py) day buffers, day     *)
(*                                                    rollover, rolling    *)
(*                                                    window, moving       *)
(*                                                    averages             *)
(*                                                                         *)
(* Units.  Wall-clock time is counted in whole seconds.  Temperatures are  *)
(* integers in thousandths of a degree, thermal rates integers in units of *)
(* 1e-5, so that the code's round(x, 2) and round(x, 4) are real           *)
(* conversions: duration_minutes and temperature_change are held in        *)
(* hundredths, moving averages in units of 1e-4.                           *)
(*                                                                         *)
(* Python's None is None for strings and <<>> for optional numbers; a      *)
(* known number v is <<v>>.                                                *)
(***************************************************************************)
EXTENDS Integers, Sequences, FiniteSets, TLC

VARIABLES
    now,                    \* wall clock, seconds
    today,                  \* calendar day number of the wall clock
    hass_states,            \* the host's state store: entity_id -> State
    collection_level,       \* CurveControlDataCollector.collection_level
    data_queue,             \* CurveControlDataCollector.data_queue
    _last_states,           \* CurveControlDataCollector._last_states
    _last_hvac_action,      \* cycle tracker
    _hvac_cycle_start,      \* cycle tracker
    _hvac_cycle_start_temp, \* cycle tracker
    daily_hvac_cycles,      \* DailyDataAggregator day buffers
    daily_temperature_data,
    daily_user_inputs,
    daily_weather_data,
    historical_daily_data,  \* DailyDataAggregator rolling window
    last_hvac_state,        \* DailyDataAggregator baseline cycle state
    current_cycle_start,
    daily_report,           \* the report of the rollover in flight, or NoReport
    _midnight_timer,        \* DailyDataAggregator: TRUE while the midnight timer is subscribed
    batch,                  \* the batch of the _send_data_batch in flight, or <<>>
    sensor_states,          \* the state store as SimpleDataCollector reads it: configured entity -> State
    pending_readings,       \* SimpleDataCollector.pending_readings
    _manual_trigger,        \* SimpleDataCollector._manual_trigger (FALSE while the attribute is not set)
    _unsub,                 \* SimpleDataCollector._unsub_5min, _unsub_hourly, _unsub_midnight: timer -> None,
                            \* "subscribed" (the function of a running timer) or "released" (a function already called)
    user_inputs_today,      \* SimpleDataCollector.user_inputs_today
    sensor_batch,           \* the callers whose _send_sensor_batch is in flight
    summary_request,        \* TRUE while the request of _send_daily_summary is in flight
    last_payload,           \* history: the readings of the last request of _send_sensor_batch
    poll_count,             \* history: the number of calls of _collect_reading
    last_outcome,           \* history: how the last request of a batch ended
    failed_at,              \* history: the value of poll_count when a request of SimpleDataCollector last failed, or -1
    last_call               \* history: per entity, the last call of _track_hvac_cycle made for it

vars == <<now, today, hass_states, collection_level, data_queue, _last_states,
          _last_hvac_action, _hvac_cycle_start, _hvac_cycle_start_temp,
          daily_hvac_cycles, daily_temperature_data, daily_user_inputs,
          daily_weather_data, historical_daily_data, last_hvac_state,
          current_cycle_start, daily_report, _midnight_timer, batch, sensor_states,
          pending_readings, _manual_trigger, _unsub, user_inputs_today, sensor_batch,
          summary_request, last_payload, poll_count, last_outcome, failed_at, last_call>>

\* the state of the SimpleDataCollector
simpleVars == <<sensor_states, pending_readings, _manual_trigger, _unsub, user_inputs_today,
                sensor_batch, summary_request, last_payload, poll_count, failed_at>>

(***************************************************************************)
(* Bounds of the model.                                                    *)
(***************************************************************************)
\* The clock stops the model at MaxTime seconds.
MaxTime == 4

\* The calendar stops the model at day MaxDay.
MaxDay == 10

(***************************************************************************)
(* Values.                                                                 *)
(***************************************************************************)
None == "None"
NoNumber == <<>>
Some(v) == <<v>>
IsKnown(x) == x # NoNumber
ValueOf(x) == x[1]

STATE_UNAVAILABLE == "unavailable"
STATE_UNKNOWN == "unknown"

\* the values an hvac_action attribute takes
HvacActions == {"idle", "heating", "cooling", "off"}

\* current_temperature readings, in thousandths of a degree
Temperatures == {68000, 71006}

\* seconds that pass between two handler invocations
Delays == {1}

\* Entities whose id contains "hvac", neither contains "temperature" nor
\* starts with "climate.", and matches a monitored pattern of
\* CURVE_CONTROL_ENTITIES.
HvacEntities == {"sensor.curve_control_energy_optimizer_hvac_status", "switch.curve_control_hvac"}

\* Entities whose id starts with "climate." (and contains "curve_control").
ClimateEntities == {"climate.curve_control_energy_optimizer_thermostat"}

\* Entities whose id contains "thermal_learning"; the one here matches no
\* monitored pattern, so the collector's state-change handler is not called
\* for it.
ThermalEntities == {"sensor.thermal_learning_rates"}

\* Entities whose id starts with "weather." (not monitored either).
WeatherEntities == {"weather.home"}

\* Entities that match a monitored pattern and whose id contains
\* "thermal_learning" or "weather": the state-change handler is called for
\* them.
MonitoredThermalEntities == {"sensor.curve_control_energy_optimizer_thermal_learning"}

MonitoredWeatherEntities == {"sensor.curve_control_energy_optimizer_weather"}

AllEntities == HvacEntities \cup ClimateEntities \cup ThermalEntities \cup WeatherEntities
               \cup MonitoredThermalEntities \cup MonitoredWeatherEntities

\* "temperature" in entity_id
ContainsTemperature(entity_id) == FALSE

\* entity_id.startswith("climate.")
StartsWithClimate(entity_id) == entity_id \in ClimateEntities

\* "hvac" in entity_id
ContainsHvac(entity_id) == entity_id \in HvacEntities

\* "thermal_learning" in entity_id
ContainsThermalLearning(entity_id) == entity_id \in ThermalEntities \cup MonitoredThermalEntities

\* "weather" in entity_id
ContainsWeather(entity_id) == entity_id \in WeatherEntities \cup MonitoredWeatherEntities

\* A state object of the host: its state string and the attributes the
\* collector reads.  NoState is the absent state object (Python None).
\* An attribute the state object does not carry reads as None (attributes.get).
NoState == [state |-> None, hvac_action |-> None, current_temperature |-> NoNumber, temperature |-> NoNumber, humidity |-> NoNumber]

\* an unavailable entity carries none of the attributes
UnavailableState == [state |-> STATE_UNAVAILABLE, hvac_action |-> None, current_temperature |-> NoNumber, temperature |-> NoNumber, humidity |-> NoNumber]

\* the states an HVAC status entity takes while it is available
HvacStates == [state : {"on"}, hvac_action : HvacActions, current_temperature : {NoNumber} \cup {Some(t) : t \in Temperatures}, temperature : {NoNumber}, humidity : {NoNumber}]

\* The states the thermal learning entity takes while it is available: its
\* three learned rates, in units of 1e-5, each of which may be missing.
ThermalStates ==
    {[state |-> "learning", heating_rate_learned |-> Some(123), cooling_rate_learned |-> NoNumber,
      natural_rate_learned |-> Some(0)],
     [state |-> "learning", heating_rate_learned |-> Some(134), cooling_rate_learned |-> Some(72),
      natural_rate_learned |-> NoNumber]}

\* The states each HVAC status entity is driven through: the first through
\* every state, the second through one idle and one heating state.
HvacStatesOf(entity_id) ==
    IF entity_id = "sensor.curve_control_energy_optimizer_hvac_status"
    THEN HvacStates \cup {UnavailableState, NoState}
    ELSE {s \in HvacStates : \/ s.hvac_action = "idle" /\ s.current_temperature = Some(68000)
                             \/ s.hvac_action = "heating" /\ s.current_temperature = Some(71006)}

\* old_state.attributes.get("hvac_action") if old_state else None
HvacActionOf(state) == state.hvac_action

(***************************************************************************)
(* Rounding: Python's round(x, n) on the exact value, half to even.        *)
(* RoundDiv(n, d) is n / d rounded to an integer.  At an exact decimal tie *)
(* Python rounds the binary float nearest to the value, which may lie on   *)
(* either side of the tie; the temperatures, times and rates of this model *)
(* (Temperatures, Delays, ThermalStates) produce no tie in the cycle       *)
(* records and the moving averages.                                        *)
(***************************************************************************)
RoundDiv(n, d) ==
    LET q == n \div d
        r == n % d
    IN  IF 2 * r < d THEN q
        ELSE IF 2 * r > d THEN q + 1
        ELSE IF q % 2 = 0 THEN q ELSE q + 1

(***************************************************************************)
(* DailyDataAggregator: the record_* methods.                              *)
(***************************************************************************)
\* Variant of record_hvac_cycle: the duration is left in seconds.
record_hvac_cycle_seconds(cycles, action, start_time, end_time, start_temp, end_temp) ==
    Append(cycles, [action |-> action,
                    start_time |-> start_time,
                    end_time |-> end_time,
                    duration_minutes |-> 100 * (end_time - start_time),
                    start_temperature |-> start_temp,
                    end_temperature |-> end_temp,
                    temperature_change |-> RoundDiv(end_temp - start_temp, 10)])

\* Variant of record_hvac_cycle: the temperature change is start minus end.
record_hvac_cycle_reversed(cycles, action, start_time, end_time, start_temp, end_temp) ==
    Append(cycles, [action |-> action,
                    start_time |-> start_time,
                    end_time |-> end_time,
                    duration_minutes |-> RoundDiv(100 * (end_time - start_time), 60),
                    start_temperature |-> start_temp,
                    end_temperature |-> end_temp,
                    temperature_change |-> RoundDiv(start_temp - end_temp, 10)])

\* record_hvac_cycle: duration in minutes and temperature change, both
\* rounded to 2 decimals (held in hundredths).
record_hvac_cycle(cycles, action, start_time, end_time, start_temp, end_temp) ==
    Append(cycles, [action |-> action,
                    start_time |-> start_time,
                    end_time |-> end_time,
                    duration_minutes |-> RoundDiv(100 * (end_time - start_time), 60),
                    start_temperature |-> start_temp,
                    end_temperature |-> end_temp,
                    temperature_change |-> RoundDiv(end_temp - start_temp, 10)])

\* _record_temperature_data
record_temperature_data(buffer, entity_id, state, timestamp) ==
    Append(buffer, [timestamp |-> timestamp,
                    entity_id |-> entity_id,
                    current_temp |-> state.current_temperature,
                    target_temp |-> state.temperature,
                    humidity |-> state.humidity,
                    hvac_action |-> state.hvac_action])

\* _record_weather_data
record_weather_data(buffer, entity_id, state, timestamp) ==
    Append(buffer, [timestamp |-> timestamp,
                    entity_id |-> entity_id,
                    condition |-> state.state,
                    temperature |-> state.temperature,
                    humidity |-> state.humidity])

(***************************************************************************)
(* DailyDataAggregator: the daily summary.                                 *)
(***************************************************************************)
RECURSIVE SeqSum(_)
SeqSum(seq) == IF seq = <<>> THEN 0 ELSE seq[1] + SeqSum(Tail(seq))

SeqMin(seq) == CHOOSE x \in {seq[i] : i \in 1..Len(seq)} : \A i \in 1..Len(seq) : x <= seq[i]

SeqMax(seq) == CHOOSE x \in {seq[i] : i \in 1..Len(seq)} : \A i \in 1..Len(seq) : x >= seq[i]

\* the values of a sequence of optional numbers a Python "if x" lets through:
\* neither None nor 0
TruthyValues(seq) ==
    LET kept == SelectSeq(seq, LAMBDA x : IsKnown(x) /\ ValueOf(x) # 0)
    IN  [i \in 1..Len(kept) |-> ValueOf(kept[i])]

\* mapping.get(key): None when the mapping has no such key
Get(mapping, key) == IF key \in DOMAIN mapping THEN mapping[key] ELSE NoNumber

\* the empty dict
EmptyMapping == <<>>

\* _summarize_hvac_cycles with the total runtime reported as the average
SummarizeHvacCycles_TotalAsAverage(cycles) ==
    IF cycles = <<>>
    THEN [total_cycles |-> 0, heating_cycles |-> 0, cooling_cycles |-> 0,
          total_runtime_minutes |-> 0, heating_runtime_minutes |-> 0,
          cooling_runtime_minutes |-> 0, average_cycle_length_minutes |-> 0]
    ELSE LET heating_cycles == SelectSeq(cycles, LAMBDA c : c.action = "heating")
             cooling_cycles == SelectSeq(cycles, LAMBDA c : c.action = "cooling")
             Runtime(cs) == SeqSum([i \in 1..Len(cs) |-> cs[i].duration_minutes])
         IN  [total_cycles |-> Len(cycles),
              heating_cycles |-> Len(heating_cycles),
              cooling_cycles |-> Len(cooling_cycles),
              total_runtime_minutes |-> Runtime(cycles),
              heating_runtime_minutes |-> Runtime(heating_cycles),
              cooling_runtime_minutes |-> Runtime(cooling_cycles),
              average_cycle_length_minutes |-> Runtime(cycles)]

\* _summarize_hvac_cycles (runtimes and average in hundredths of a minute)
SummarizeHvacCycles(cycles) ==
    IF cycles = <<>>
    THEN [total_cycles |-> 0, heating_cycles |-> 0, cooling_cycles |-> 0,
          total_runtime_minutes |-> 0, heating_runtime_minutes |-> 0,
          cooling_runtime_minutes |-> 0, average_cycle_length_minutes |-> 0]
    ELSE LET heating_cycles == SelectSeq(cycles, LAMBDA c : c.action = "heating")
             cooling_cycles == SelectSeq(cycles, LAMBDA c : c.action = "cooling")
             Runtime(cs) == SeqSum([i \in 1..Len(cs) |-> cs[i].duration_minutes])
         IN  [total_cycles |-> Len(cycles),
              heating_cycles |-> Len(heating_cycles),
              cooling_cycles |-> Len(cooling_cycles),
              total_runtime_minutes |-> Runtime(cycles),
              heating_runtime_minutes |-> Runtime(heating_cycles),
              cooling_runtime_minutes |-> Runtime(cooling_cycles),
              average_cycle_length_minutes |-> RoundDiv(Runtime(cycles), Len(cycles))]

\* _summarize_temperature_data (min and max in thousandths, avg in hundredths)
SummarizeTemperatureData(data) ==
    IF data = <<>>
    THEN EmptyMapping
    ELSE LET temps == TruthyValues([i \in 1..Len(data) |-> data[i].current_temp])
             targets == TruthyValues([i \in 1..Len(data) |-> data[i].target_temp])
             humidity == TruthyValues([i \in 1..Len(data) |-> data[i].humidity])
         IN  (IF temps # <<>>
              THEN "actual_temperature" :> [min |-> SeqMin(temps), max |-> SeqMax(temps),
                                            avg |-> RoundDiv(SeqSum(temps), 10 * Len(temps)),
                                            readings_count |-> Len(temps)]
              ELSE EmptyMapping)
             @@
             (IF targets # <<>>
              THEN "target_temperature" :> [min |-> SeqMin(targets), max |-> SeqMax(targets),
                                            avg |-> RoundDiv(SeqSum(targets), 10 * Len(targets)),
                                            changes_count |-> Cardinality({targets[i] : i \in 1..Len(targets)})]
              ELSE EmptyMapping)
             @@
             (IF humidity # <<>>
              THEN "humidity" :> [min |-> SeqMin(humidity), max |-> SeqMax(humidity),
                                  avg |-> RoundDiv(SeqSum(humidity), 10 * Len(humidity)),
                                  readings_count |-> Len(humidity)]
              ELSE EmptyMapping)

\* _summarize_user_inputs; services_used is a list when there are no inputs
\* and a dict of counts otherwise
SummarizeUserInputs(inputs) ==
    IF inputs = <<>>
    THEN [total_inputs |-> 0, services_used |-> [kind |-> "list", counts |-> EmptyMapping]]
    ELSE LET services == {inputs[i].service : i \in 1..Len(inputs)}
             service_counts == [sv \in services |-> Cardinality({i \in 1..Len(inputs) : inputs[i].service = sv})]
         IN  [total_inputs |-> Len(inputs),
              services_used |-> [kind |-> "dict", counts |-> service_counts],
              unique_services |-> Cardinality(services)]

\* the primary condition with ties going to the condition recorded last
PrimaryCondition_LastOfTied(conditions) ==
    LET Count(c) == Cardinality({i \in 1..Len(conditions) : conditions[i] = c})
        best == CHOOSE i \in 1..Len(conditions) :
                    /\ \A j \in 1..Len(conditions) : Count(conditions[j]) <= Count(conditions[i])
                    /\ \A j \in (i + 1)..Len(conditions) : Count(conditions[j]) < Count(conditions[i])
    IN  conditions[best]

\* max(condition_counts.keys(), key=condition_counts.get): the first key, in
\* the order of first occurrence, among those of the highest count
PrimaryCondition(conditions) ==
    LET Count(c) == Cardinality({i \in 1..Len(conditions) : conditions[i] = c})
        best == CHOOSE i \in 1..Len(conditions) :
                    /\ \A j \in 1..Len(conditions) : Count(conditions[j]) <= Count(conditions[i])
                    /\ \A j \in 1..(i - 1) : Count(conditions[j]) < Count(conditions[i])
    IN  conditions[best]

\* _summarize_weather_data
SummarizeWeatherData(data) ==
    IF data = <<>>
    THEN EmptyMapping
    ELSE LET conditions == SelectSeq([i \in 1..Len(data) |-> data[i].condition], LAMBDA c : c # None /\ c # "")
             temps == TruthyValues([i \in 1..Len(data) |-> data[i].temperature])
             humidity == TruthyValues([i \in 1..Len(data) |-> data[i].humidity])
         IN  (IF conditions # <<>>
              THEN "conditions" :> [c \in {conditions[i] : i \in 1..Len(conditions)} |->
                                       Cardinality({i \in 1..Len(conditions) : conditions[i] = c})]
                   @@ "primary_condition" :> PrimaryCondition(conditions)
              ELSE EmptyMapping)
             @@
             (IF temps # <<>>
              THEN "outdoor_temperature" :> [min |-> SeqMin(temps), max |-> SeqMax(temps),
                                             avg |-> RoundDiv(SeqSum(temps), 10 * Len(temps))]
              ELSE EmptyMapping)
             @@
             (IF humidity # <<>>
              THEN "outdoor_humidity" :> [min |-> SeqMin(humidity), max |-> SeqMax(humidity),
                                          avg |-> RoundDiv(SeqSum(humidity), 10 * Len(humidity))]
              ELSE EmptyMapping)

\* _get_current_thermal_rates: the rates of the first thermal learning entity
\* of the state store (the sample counts and has_sufficient_data pass through
\* the same way and are left out)
GetCurrentThermalRates(states) ==
    LET thermal_entities == {e \in AllEntities : ContainsThermalLearning(e) /\ states[e] # NoState}
    IN  IF thermal_entities = {}
        THEN EmptyMapping
        ELSE LET state == states[CHOOSE e \in thermal_entities : TRUE]
             IN  IF state.state \in {STATE_UNAVAILABLE, STATE_UNKNOWN}
                 THEN EmptyMapping
                 ELSE [heating_rate_learned |-> state.heating_rate_learned,
                       cooling_rate_learned |-> state.cooling_rate_learned,
                       natural_rate_learned |-> state.natural_rate_learned]

\* _aggregate_daily_data
AggregateDailyData(date, states) ==
    [date |-> date,
     hvac_cycles |-> SummarizeHvacCycles(daily_hvac_cycles),
     temperature_data |-> SummarizeTemperatureData(daily_temperature_data),
     user_inputs |-> SummarizeUserInputs(daily_user_inputs),
     weather_data |-> SummarizeWeatherData(daily_weather_data),
     thermal_rates |-> GetCurrentThermalRates(states)]

(***************************************************************************)
(* DailyDataAggregator: the rolling window and the moving averages.        *)
(***************************************************************************)
DAILY_DATA_RETENTION_DAYS == 8

\* Variant of AppendWindow: the window is an unbounded list.
AppendWindow_Unbounded(window, daily_summary) == Append(window, daily_summary)

\* historical_daily_data.append on a deque(maxlen=DAILY_DATA_RETENTION_DAYS)
AppendWindow(window, daily_summary) ==
    IF Len(window) >= DAILY_DATA_RETENTION_DAYS
    THEN Append(Tail(window), daily_summary)
    ELSE Append(window, daily_summary)

\* Variant of RatesOf: a summary without the rate counts as rate 0.
RatesOf_ZeroFilled(window, key) ==
    [i \in 1..Len(window) |->
        IF IsKnown(Get(window[i].thermal_rates, key))
        THEN ValueOf(Get(window[i].thermal_rates, key)) ELSE 0]

\* the list of one rate over the window: the summaries whose thermal_rates
\* hold a value other than None under the key
RatesOf(window, key) ==
    LET present == SelectSeq(window, LAMBDA day_data : IsKnown(Get(day_data.thermal_rates, key)))
    IN  [i \in 1..Len(present) |-> ValueOf(Get(present[i].thermal_rates, key))]

\* the two entries of moving_averages for one rate: the mean rounded to 4
\* decimals (held in units of 1e-4) and the number of samples, or nothing
\* when the list is empty
AverageEntries(rates, avg_key, samples_key) ==
    IF rates # <<>>
    THEN avg_key :> RoundDiv(SeqSum(rates), 10 * Len(rates)) @@ samples_key :> Len(rates)
    ELSE EmptyMapping

\* _calculate_moving_averages
CalculateMovingAverages(window) ==
    IF Len(window) < 2
    THEN EmptyMapping
    ELSE AverageEntries(RatesOf(window, "heating_rate_learned"), "heating_rate_7day_avg", "heating_rate_samples")
         @@ AverageEntries(RatesOf(window, "cooling_rate_learned"), "cooling_rate_7day_avg", "cooling_rate_samples")
         @@ AverageEntries(RatesOf(window, "natural_rate_learned"), "natural_rate_7day_avg", "natural_rate_samples")

(***************************************************************************)
(* CurveControlDataCollector.                                              *)
(***************************************************************************)
MAX_QUEUE_SIZE == 1000

BATCH_SIZE == 10

EVENT_USER_INPUT == "user_input"
EVENT_TEMPERATURE_CHANGE == "temperature_change"
EVENT_HVAC_ACTION == "hvac_action"
EVENT_THERMAL_LEARNING == "thermal_learning"
EVENT_WEATHER_UPDATE == "weather_update"

\* _queue_data_point: append to a deque(maxlen=MAX_QUEUE_SIZE); a full deque
\* drops its oldest element.  A data point is held by its event type and
\* its timestamp.
QueueDataPoint(queue, event_type, timestamp) ==
    IF Len(queue) >= MAX_QUEUE_SIZE
    THEN Append(Tail(queue), [event_type |-> event_type, timestamp |-> timestamp])
    ELSE Append(queue, [event_type |-> event_type, timestamp |-> timestamp])

\* the condition of the "cycle start" branch of _track_hvac_cycle
IsCycleStart(old_hvac_action, hvac_action) ==
    /\ old_hvac_action = "idle" \/ old_hvac_action = None
    /\ hvac_action \in {"heating", "cooling"}

\* the condition of the "cycle end" branch of _track_hvac_cycle
IsCycleEnd(old_hvac_action, hvac_action) ==
    /\ old_hvac_action \in {"heating", "cooling"}
    /\ hvac_action = "idle"

\* the condition under which the cycle end branch records the cycle
\* (a datetime is always true in Python; only None is false)
CycleIsComplete(cycle_start, cycle_start_temp, current_temp) ==
    /\ IsKnown(cycle_start)
    /\ IsKnown(cycle_start_temp)
    /\ IsKnown(current_temp)

\* the record the variants of CloseCycle append
CycleRecord(action, start_time, end_time, start_temp, end_temp) ==
    [action |-> action, start_time |-> start_time, end_time |-> end_time,
     duration_minutes |-> RoundDiv(100 * (end_time - start_time), 60),
     start_temperature |-> start_temp, end_temperature |-> end_temp,
     temperature_change |-> RoundDiv(end_temp - start_temp, 10)]

\* Variant of CloseCycle: an unknown end temperature is replaced by the start
\* temperature instead of dropping the cycle.
CloseCycle_DefaultEndTemp(cycles, old_hvac_action, cycle_start, cycle_start_temp, current_temp, t) ==
    IF IsKnown(cycle_start) /\ IsKnown(cycle_start_temp)
    THEN Append(cycles, CycleRecord(old_hvac_action, ValueOf(cycle_start), t, ValueOf(cycle_start_temp),
                                    IF IsKnown(current_temp) THEN ValueOf(current_temp)
                                    ELSE ValueOf(cycle_start_temp)))
    ELSE cycles

\* Variant of CloseCycle: a missing cycle start is replaced by the end event
\* instead of dropping the cycle.
CloseCycle_DefaultStart(cycles, old_hvac_action, cycle_start, cycle_start_temp, current_temp, t) ==
    IF IsKnown(current_temp)
    THEN Append(cycles, CycleRecord(old_hvac_action,
                                    IF IsKnown(cycle_start) THEN ValueOf(cycle_start) ELSE t, t,
                                    IF IsKnown(cycle_start_temp) THEN ValueOf(cycle_start_temp)
                                    ELSE ValueOf(current_temp),
                                    ValueOf(current_temp)))
    ELSE cycles

\* the cycle end branch's recording: the buffer after a cycle end
CloseCycle(cycles, old_hvac_action, cycle_start, cycle_start_temp, current_temp, t) ==
    IF CycleIsComplete(cycle_start, cycle_start_temp, current_temp)
    THEN record_hvac_cycle(cycles, old_hvac_action, ValueOf(cycle_start), t,
                           ValueOf(cycle_start_temp), ValueOf(current_temp))
    ELSE cycles

\* History of a call of _track_hvac_cycle: its arguments, its time and day,
\* and the tracker and the buffer length it found.
NoCall == [old_hvac_action |-> None, hvac_action |-> None, current_temp |-> NoNumber, at |-> -1,
           cycle_start_before |-> NoNumber, cycle_start_temp_before |-> NoNumber, cycles_before |-> 0,
           day |-> 0]

\* _track_hvac_cycle, called at wall-clock time t
TrackHvacCycle(entity_id, new_state, old_state, t) ==
    LET hvac_action == HvacActionOf(new_state)
        old_hvac_action == HvacActionOf(old_state)
        current_temp == new_state.current_temperature
    IN  /\ last_call' = [last_call EXCEPT ![entity_id] =
                            [old_hvac_action |-> old_hvac_action, hvac_action |-> hvac_action,
                             current_temp |-> current_temp, at |-> t,
                             cycle_start_before |-> _hvac_cycle_start,
                             cycle_start_temp_before |-> _hvac_cycle_start_temp,
                             cycles_before |-> Len(daily_hvac_cycles), day |-> today]]
        /\ IF IsCycleStart(old_hvac_action, hvac_action)
           THEN /\ _last_hvac_action' = hvac_action
                /\ _hvac_cycle_start' = Some(t)
                /\ _hvac_cycle_start_temp' = current_temp
                /\ UNCHANGED daily_hvac_cycles
           ELSE IF IsCycleEnd(old_hvac_action, hvac_action)
           THEN /\ daily_hvac_cycles' = CloseCycle(daily_hvac_cycles, old_hvac_action, _hvac_cycle_start,
                                                   _hvac_cycle_start_temp, current_temp, t)
                /\ _last_hvac_action' = None
                /\ _hvac_cycle_start' = NoNumber
                /\ _hvac_cycle_start_temp' = NoNumber
           ELSE UNCHANGED <<_last_hvac_action, _hvac_cycle_start, _hvac_cycle_start_temp,
                            daily_hvac_cycles>>

trackerVars == <<_last_hvac_action, _hvac_cycle_start, _hvac_cycle_start_temp, daily_hvac_cycles, last_call>>

\* _collect_temperature_data without the test of the collection level
CollectTemperatureData_Ungated(entity_id, new_state, old_state, t) ==
    /\ data_queue' = QueueDataPoint(data_queue, EVENT_TEMPERATURE_CHANGE, t)
    /\ daily_temperature_data' = record_temperature_data(daily_temperature_data, entity_id, new_state, t)
    /\ UNCHANGED <<trackerVars, daily_weather_data>>

\* _collect_temperature_data
CollectTemperatureData(entity_id, new_state, old_state, t) ==
    /\ data_queue' = IF collection_level \in {"standard", "detailed"}
                     THEN QueueDataPoint(data_queue, EVENT_TEMPERATURE_CHANGE, t)
                     ELSE data_queue
    /\ daily_temperature_data' = record_temperature_data(daily_temperature_data, entity_id, new_state, t)
    /\ UNCHANGED <<trackerVars, daily_weather_data>>

\* _collect_hvac_data
CollectHvacData(entity_id, new_state, old_state, t) ==
    /\ IF /\ collection_level \in {"standard", "detailed"}
          /\ HvacActionOf(new_state) # HvacActionOf(old_state)
       THEN /\ data_queue' = QueueDataPoint(data_queue, EVENT_HVAC_ACTION, t)
            /\ TrackHvacCycle(entity_id, new_state, old_state, t)
       ELSE UNCHANGED <<data_queue, trackerVars>>
    /\ UNCHANGED <<daily_temperature_data, daily_weather_data>>

\* _collect_thermal_learning_data
CollectThermalLearningData(entity_id, new_state, old_state, t) ==
    /\ data_queue' = IF collection_level = "detailed"
                     THEN QueueDataPoint(data_queue, EVENT_THERMAL_LEARNING, t)
                     ELSE data_queue
    /\ UNCHANGED <<trackerVars, daily_temperature_data, daily_weather_data>>

\* _collect_weather_data
CollectWeatherData(entity_id, new_state, old_state, t) ==
    /\ data_queue' = IF collection_level = "detailed"
                     THEN QueueDataPoint(data_queue, EVENT_WEATHER_UPDATE, t)
                     ELSE data_queue
    /\ daily_weather_data' = record_weather_data(daily_weather_data, entity_id, new_state, t)
    /\ UNCHANGED <<trackerVars, daily_temperature_data>>

aggregatorVars == <<today, daily_user_inputs, historical_daily_data, last_hvac_state, current_cycle_start,
                    daily_report, _midnight_timer>>

\* _async_state_changed: the host changes the state of a monitored entity
\* from old_state to new_state and calls the handler with both.
AsyncStateChanged(entity_id, new_state, delay) ==
    LET old_state == hass_states[entity_id]
        t == now + delay
    IN  /\ t <= MaxTime
        /\ new_state # old_state
        /\ now' = t
        /\ hass_states' = [hass_states EXCEPT ![entity_id] = new_state]
        /\ IF new_state = NoState \/ new_state.state \in {STATE_UNAVAILABLE, STATE_UNKNOWN}
           THEN UNCHANGED <<data_queue, _last_states, trackerVars, daily_temperature_data, daily_weather_data>>
           ELSE /\ IF ContainsTemperature(entity_id) \/ StartsWithClimate(entity_id)
                   THEN CollectTemperatureData(entity_id, new_state, old_state, t)
                   ELSE IF ContainsHvac(entity_id) \/ StartsWithClimate(entity_id)
                   THEN CollectHvacData(entity_id, new_state, old_state, t)
                   ELSE IF ContainsThermalLearning(entity_id)
                   THEN CollectThermalLearningData(entity_id, new_state, old_state, t)
                   ELSE IF ContainsWeather(entity_id)
                   THEN CollectWeatherData(entity_id, new_state, old_state, t)
                   ELSE UNCHANGED <<data_queue, trackerVars, daily_temperature_data, daily_weather_data>>
                /\ _last_states' = [_last_states EXCEPT ![entity_id] = new_state]
        /\ UNCHANGED <<collection_level, aggregatorVars, batch, last_outcome, simpleVars>>

\* the services of the call_service events the collector hears
Services == {[domain |-> "curve_control", service |-> "trigger_manual_reading"],
             [domain |-> "curve_control", service |-> "get_sensor_status"],
             [domain |-> "light", service |-> "turn_on"]}

\* record_user_input
record_user_input(buffer, service, timestamp) ==
    Append(buffer, [timestamp |-> timestamp, service |-> service])

\* _async_service_called with a stored summary that shares its user input
\* part with the working buffer: recording an input changes the last summary
\* of the window
AsyncServiceCalled_AliasedSummary(call, delay) ==
    LET t == now + delay
        stored == Len(historical_daily_data)
    IN  /\ t <= MaxTime
        /\ now' = t
        /\ IF call.domain = "curve_control"
           THEN /\ data_queue' = QueueDataPoint(data_queue, EVENT_USER_INPUT, t)
                /\ daily_user_inputs' = record_user_input(daily_user_inputs, call.service, t)
                /\ historical_daily_data' =
                      IF stored = 0
                      THEN historical_daily_data
                      ELSE [historical_daily_data EXCEPT ![stored].user_inputs =
                                                           SummarizeUserInputs(daily_user_inputs')]
           ELSE UNCHANGED <<data_queue, daily_user_inputs, historical_daily_data>>
        /\ UNCHANGED <<today, hass_states, collection_level, _last_states, trackerVars,
                       daily_temperature_data, daily_weather_data,
                       last_hvac_state, current_cycle_start, daily_report, _midnight_timer,
                       batch, last_outcome, simpleVars>>

\* _async_service_called and _collect_user_input_data: a service is called
\* on the host; a curve_control call is queued and recorded.
AsyncServiceCalled(call, delay) ==
    LET t == now + delay
    IN  /\ t <= MaxTime
        /\ now' = t
        /\ IF call.domain = "curve_control"
           THEN /\ data_queue' = QueueDataPoint(data_queue, EVENT_USER_INPUT, t)
                /\ daily_user_inputs' = record_user_input(daily_user_inputs, call.service, t)
           ELSE UNCHANGED <<data_queue, daily_user_inputs>>
        /\ UNCHANGED <<today, hass_states, collection_level, _last_states, trackerVars,
                       daily_temperature_data, daily_weather_data, historical_daily_data,
                       last_hvac_state, current_cycle_start, daily_report, _midnight_timer,
                       batch, last_outcome, simpleVars>>

\* how an HTTP request ends: status 200, another status, asyncio.TimeoutError,
\* any other exception
SendOutcomes == {"200", "non-200", "timeout", "error"}

\* async_collect_and_send up to the request of _send_data_batch: take up to
\* BATCH_SIZE points off the left end of the queue and post them.
AsyncCollectAndSend ==
    /\ batch = <<>>
    /\ data_queue # <<>>
    /\ LET batch_size == IF BATCH_SIZE < Len(data_queue) THEN BATCH_SIZE ELSE Len(data_queue)
       IN  /\ batch' = SubSeq(data_queue, 1, batch_size)
           /\ data_queue' = SubSeq(data_queue, batch_size + 1, Len(data_queue))
    /\ UNCHANGED <<now, hass_states, collection_level, _last_states, trackerVars, aggregatorVars,
                   daily_temperature_data, daily_weather_data, last_outcome, simpleVars>>

\* data_queue.extendleft(reversed(batch)) on a deque(maxlen=MAX_QUEUE_SIZE):
\* the points go back to the left end one by one, last point first, and each
\* appendleft to a full deque drops the point at its right end.
ExtendLeftReversed(queue, points) ==
    LET all == points \o queue
    IN  IF Len(all) > MAX_QUEUE_SIZE THEN SubSeq(all, 1, MAX_QUEUE_SIZE) ELSE all

\* _send_data_batch from the response on: a batch that was not accepted
\* with status 200 is put back into the queue.
FinishSendDataBatch(outcome) ==
    /\ batch # <<>>
    /\ data_queue' = IF outcome = "200" THEN data_queue ELSE ExtendLeftReversed(data_queue, batch)
    /\ batch' = <<>>
    /\ last_outcome' = outcome
    /\ UNCHANGED <<now, hass_states, collection_level, _last_states, trackerVars, aggregatorVars,
                   daily_temperature_data, daily_weather_data, simpleVars>>

(***************************************************************************)
(* DailyDataAggregator: the day rollover.  _collect_and_send_daily_data is *)
(* a coroutine: it runs without interruption up to the HTTP request of     *)
(* _send_daily_report, waits there for the response, and then runs to its  *)
(* end.  Other callbacks run while it waits.                               *)
(***************************************************************************)
\* no rollover is waiting for its response
NoReport == [sent |-> FALSE]

\* _collect_baseline_states, the thermostat part: the cycle state after it
BaselineCycleStateOf(states, t, hvac_state, cycle_start) ==
    LET active == {e \in ClimateEntities :
                      /\ states[e] # NoState
                      /\ states[e].state \notin {STATE_UNAVAILABLE, STATE_UNKNOWN}
                      /\ states[e].hvac_action # "idle"}
    IN  IF active = {}
        THEN <<hvac_state, cycle_start>>
        ELSE <<states[CHOOSE e \in active : TRUE].hvac_action, Some(t)>>

\* _collect_baseline_states, the thermostat part: the temperature buffer
\* after it (one climate entity)
BaselineTemperatureData(states, t) ==
    LET available == {e \in ClimateEntities :
                         /\ states[e] # NoState
                         /\ states[e].state \notin {STATE_UNAVAILABLE, STATE_UNKNOWN}}
    IN  IF available = {}
        THEN <<>>
        ELSE LET e == CHOOSE e \in available : TRUE
             IN  record_temperature_data(<<>>, e, states[e], t)

\* _collect_baseline_states, the weather part: the weather buffer after it
\* (the first weather entity only)
BaselineWeatherData(states, t) ==
    LET present == {e \in WeatherEntities : states[e] # NoState}
    IN  IF present = {}
        THEN <<>>
        ELSE LET e == CHOOSE e \in present : TRUE
             IN  IF states[e].state \in {STATE_UNAVAILABLE, STATE_UNKNOWN}
                 THEN <<>>
                 ELSE record_weather_data(<<>>, e, states[e], t)

\* _start_daily_collection without the reset of daily_user_inputs
StartDailyCollection_KeepUserInputs ==
    /\ daily_hvac_cycles' = <<>>
    /\ daily_temperature_data' = BaselineTemperatureData(hass_states, now)
    /\ UNCHANGED daily_user_inputs
    /\ daily_weather_data' = BaselineWeatherData(hass_states, now)
    /\ last_hvac_state' = BaselineCycleStateOf(hass_states, now, last_hvac_state, current_cycle_start)[1]
    /\ current_cycle_start' = BaselineCycleStateOf(hass_states, now, last_hvac_state, current_cycle_start)[2]

\* _start_daily_collection
StartDailyCollection ==
    /\ daily_hvac_cycles' = <<>>
    /\ daily_temperature_data' = BaselineTemperatureData(hass_states, now)
    /\ daily_user_inputs' = <<>>
    /\ daily_weather_data' = BaselineWeatherData(hass_states, now)
    /\ last_hvac_state' = BaselineCycleStateOf(hass_states, now, last_hvac_state, current_cycle_start)[1]
    /\ current_cycle_start' = BaselineCycleStateOf(hass_states, now, last_hvac_state, current_cycle_start)[2]

collectorVars == <<collection_level, data_queue, _last_states, _last_hvac_action, _hvac_cycle_start,
                   _hvac_cycle_start_temp, batch, last_call>>

\* _collect_and_send_daily_data up to the request, with the moving averages
\* computed after the day's summary joined the window
BeginDailyReport_AveragesWithSummary(date_today) ==
    /\ daily_report = NoReport
    /\ LET yesterday == date_today - 1
       IN  daily_report' = [sent |-> TRUE,
                            date |-> yesterday,
                            daily_summary |-> AggregateDailyData(yesterday, hass_states),
                            moving_averages |-> CalculateMovingAverages(
                                Append(historical_daily_data, AggregateDailyData(yesterday, hass_states)))]

\* _collect_and_send_daily_data up to the request: aggregate the day, compute
\* the moving averages, build the report and post it.
BeginDailyReport(date_today) ==
    /\ daily_report = NoReport
    /\ LET yesterday == date_today - 1
       IN  daily_report' = [sent |-> TRUE,
                            date |-> yesterday,
                            daily_summary |-> AggregateDailyData(yesterday, hass_states),
                            moving_averages |-> CalculateMovingAverages(historical_daily_data)]

\* _async_midnight_collection: the midnight timer fires on a new day and
\* starts _collect_and_send_daily_data as a task.
AsyncMidnightCollection ==
    /\ _midnight_timer
    /\ today < MaxDay
    /\ today' = today + 1
    /\ BeginDailyReport(today + 1)
    /\ UNCHANGED <<now, hass_states, collectorVars, daily_hvac_cycles, daily_temperature_data,
                   daily_user_inputs, daily_weather_data, historical_daily_data, last_hvac_state,
                   current_cycle_start, _midnight_timer, last_outcome, simpleVars>>

\* _collect_and_send_daily_data from the response on, storing the summary and
\* starting the new day only after a 200 response
FinishDailyReport_KeepOnFailure(outcome) ==
    /\ daily_report # NoReport
    /\ IF outcome = "200"
       THEN /\ historical_daily_data' = AppendWindow(historical_daily_data, daily_report.daily_summary)
            /\ StartDailyCollection
       ELSE UNCHANGED <<historical_daily_data, daily_hvac_cycles, daily_temperature_data,
                        daily_user_inputs, daily_weather_data, last_hvac_state, current_cycle_start>>
    /\ daily_report' = NoReport
    /\ UNCHANGED <<now, today, hass_states, collectorVars, _midnight_timer, last_outcome, simpleVars>>

\* _collect_and_send_daily_data from the response on: whatever the outcome
\* of the request, store the summary in the window and start the new day.
FinishDailyReport(outcome) ==
    /\ daily_report # NoReport
    /\ historical_daily_data' = AppendWindow(historical_daily_data, daily_report.daily_summary)
    /\ StartDailyCollection
    /\ daily_report' = NoReport
    /\ UNCHANGED <<now, today, hass_states, collectorVars, _midnight_timer, last_outcome, simpleVars>>

\* DailyDataAggregator.async_cleanup: release the midnight timer, then run
\* _collect_and_send_daily_data on the partial day
AsyncCleanup ==
    /\ _midnight_timer
    /\ _midnight_timer' = FALSE
    /\ BeginDailyReport(today)
    /\ UNCHANGED <<now, today, hass_states, collectorVars, daily_hvac_cycles, daily_temperature_data,
                   daily_user_inputs, daily_weather_data, historical_daily_data, last_hvac_state,
                   current_cycle_start, last_outcome, simpleVars>>

\* the weather integration publishes a new state of its entity, which the
\* collector does not monitor
WeatherUpdated(new_state) ==
    /\ \E e \in WeatherEntities :
          /\ new_state # hass_states[e]
          /\ hass_states' = [hass_states EXCEPT ![e] = new_state]
    /\ UNCHANGED <<now, today, collectorVars, daily_hvac_cycles, daily_temperature_data,
                   daily_user_inputs, daily_weather_data, historical_daily_data, last_hvac_state,
                   current_cycle_start, daily_report, _midnight_timer, last_outcome, simpleVars>>

\* the thermal learning subsystem publishes a new state of its entity
ThermalLearningUpdated(new_state) ==
    /\ \E e \in ThermalEntities :
          /\ new_state # hass_states[e]
          /\ hass_states' = [hass_states EXCEPT ![e] = new_state]
    /\ UNCHANGED <<now, today, collectorVars, daily_hvac_cycles, daily_temperature_data,
                   daily_user_inputs, daily_weather_data, historical_daily_data, last_hvac_state,
                   current_cycle_start, daily_report, _midnight_timer, last_outcome, simpleVars>>


(***************************************************************************)
(* SimpleDataCollector: one reading per poll.  Temperatures and humidity   *)
(* are in tenths.                                                          *)
(***************************************************************************)
\* the polls of a run
MaxPolls == 2

\* the absent state object of a configured entity (hass.states.get gives None)
NoSensorState == [entity_id |-> None, state |-> None, attributes |-> EmptyMapping]

\* humidity_entity is None: no humidity entity is configured
NotConfigured == [entity_id |-> None, state |-> "not configured", attributes |-> EmptyMapping]

\* float(text): the number a state string denotes, in tenths; NoNumber where
\* float raises ValueError
ParseFloat(text) ==
    CASE text = "69.4" -> Some(694)
      [] text = "69.5" -> Some(695)
      [] text = "70.0" -> Some(700)
      [] text = "70.5" -> Some(705)
      [] text = "70.6" -> Some(706)
      [] text = "45.0" -> Some(450)
      [] OTHER -> NoNumber

\* str.upper on the strings of the model
Upper(text) ==
    CASE text = "heating" -> "HEATING"
      [] text = "cooling" -> "COOLING"
      [] text = "idle" -> "IDLE"
      [] text = "off" -> "OFF"
      [] text = "fan" -> "FAN"
      [] text = "drying" -> "DRYING"
      [] text = "heat" -> "HEAT"
      [] text = "cool" -> "COOL"
      [] text = "auto" -> "AUTO"
      [] text = "heat_cool" -> "HEAT_COOL"
      [] text = "on" -> "ON"
      [] OTHER -> text

\* State.domain: the part of the entity id before the dot
DomainOf(entity_id) ==
    CASE entity_id \in {"climate.hvac", "climate.thermostat"} -> "climate"
      [] entity_id \in {"sensor.hvac_status", "sensor.heat_pump"} -> "sensor"
      [] entity_id \in {"binary_sensor.furnace", "binary_sensor.blower"} -> "binary_sensor"
      [] OTHER -> "switch"

\* 'heat' in entity_id.lower()
ContainsHeat(entity_id) == entity_id \in {"sensor.heat_pump"}

\* 'cool' in entity_id.lower()
ContainsCool(entity_id) == FALSE

\* 'ac' in entity_id.lower()
ContainsAc(entity_id) == entity_id \in {"binary_sensor.furnace"}

\* the truth value of an attribute that holds a number or None
Truthy(x) == IsKnown(x) /\ ValueOf(x) # 0

\* The auto branch of the climate inference: the state from target - current
\* when both values are truthy, else the action found so far.
AutoInference(temp_state, hvac_state, hvac_action) ==
    LET current_temp == temp_state.state
        target_temp == Get(hvac_state.attributes, "temperature")
    IN  IF current_temp \notin {None, ""} /\ Truthy(target_temp)
        THEN IF ~IsKnown(ParseFloat(current_temp))
             THEN "OFF"
             ELSE LET temp_diff == ValueOf(target_temp) - ValueOf(ParseFloat(current_temp))
                  IN  IF temp_diff > 5 THEN "HEATING"
                      ELSE IF temp_diff < -5 THEN "COOLING"
                      ELSE "OFF"
        ELSE hvac_action

\* the climate branch: the hvac_action attribute, and the mode or the state
\* when the attribute is missing, empty, OFF, IDLE or FAN
ClimateAction(temp_state, hvac_state) ==
    LET attributes == hvac_state.attributes
        hvac_action == IF "hvac_action" \in DOMAIN attributes THEN Upper(attributes.hvac_action) ELSE None
    IN  IF hvac_action \in {None, "", "OFF", "IDLE", "FAN"}
        THEN LET hvac_mode == Upper(IF "hvac_mode" \in DOMAIN attributes
                                    THEN attributes.hvac_mode ELSE hvac_state.state)
             IN  IF hvac_mode \in {"HEAT", "HEATING"} THEN "HEATING"
                 ELSE IF hvac_mode \in {"COOL", "COOLING"} THEN "COOLING"
                 ELSE IF hvac_mode = "AUTO" THEN AutoInference(temp_state, hvac_state, hvac_action)
                 ELSE "OFF"
        ELSE hvac_action

\* the sensor branch
SensorAction(hvac_state) ==
    LET sensor_value == Upper(hvac_state.state)
    IN  IF sensor_value \in {"HEAT", "HEATING", "1", "ON"} /\ ContainsHeat(hvac_state.entity_id) THEN "HEATING"
        ELSE IF sensor_value \in {"COOL", "COOLING", "1", "ON"} /\ ContainsCool(hvac_state.entity_id) THEN "COOLING"
        ELSE IF sensor_value \in {"HEAT", "HEATING"} THEN "HEATING"
        ELSE IF sensor_value \in {"COOL", "COOLING"} THEN "COOLING"
        ELSE "OFF"

\* the binary_sensor branch
BinarySensorAction(hvac_state) ==
    IF hvac_state.state = "on"
    THEN IF ContainsHeat(hvac_state.entity_id) THEN "HEATING"
         ELSE IF ContainsCool(hvac_state.entity_id) \/ ContainsAc(hvac_state.entity_id) THEN "COOLING"
         ELSE "HEATING"
    ELSE "OFF"

\* hvac_action of _collect_reading before the final mapping
HvacActionOfReading(temp_state, hvac_state) ==
    LET domain == DomainOf(hvac_state.entity_id)
    IN  IF domain = "climate" THEN ClimateAction(temp_state, hvac_state)
        ELSE IF domain = "sensor" THEN SensorAction(hvac_state)
        ELSE IF domain = "binary_sensor" THEN BinarySensorAction(hvac_state)
        ELSE None

\* final_hvac_action
FinalHvacAction(hvac_action) ==
    IF hvac_action \in {"HEATING", "HEAT"} THEN "HEAT"
    ELSE IF hvac_action \in {"COOLING", "COOL"} THEN "COOL"
    ELSE "OFF"

\* a dict of attributes: hvac_action and hvac_mode are strings, None for a
\* missing key; temperature is <<>> for a missing key and <<value>> otherwise
MakeAttributes(hvac_action, hvac_mode, temperature) ==
    LET keys == (IF hvac_action = None THEN {} ELSE {"hvac_action"})
                \cup (IF hvac_mode = None THEN {} ELSE {"hvac_mode"})
                \cup (IF temperature = <<>> THEN {} ELSE {"temperature"})
    IN  [key \in keys |-> CASE key = "hvac_action" -> hvac_action
                            [] key = "hvac_mode" -> hvac_mode
                            [] key = "temperature" -> temperature[1]]

\* the states of the temperature sensor
TemperatureStates ==
    {[entity_id |-> "sensor.indoor_temperature", state |-> text, attributes |-> EmptyMapping] :
        text \in {"69.4", "69.5", "70.0", "70.5", "70.6", "unknown"}}

\* the target temperatures an entity carries: none, None, 0.0, 70.0
TargetTemperatures == {<<>>, <<NoNumber>>, <<Some(0)>>, <<Some(700)>>}

\* the states of a climate entity configured as the HVAC entity
ClimateHvacStates ==
    {[entity_id |-> "climate.hvac", state |-> text,
      attributes |-> MakeAttributes(hvac_action, hvac_mode, temperature)] :
        text \in {"heat", "cool", "auto", "off", "heat_cool"},
        hvac_action \in {None, "heating", "cooling", "idle", "off", "fan", "drying"},
        hvac_mode \in {None, "auto", "heat"},
        temperature \in TargetTemperatures}

\* the states of the other entities configured as the HVAC entity
OtherHvacStates ==
    {[entity_id |-> entity_id, state |-> text, attributes |-> EmptyMapping] :
        entity_id \in {"sensor.hvac_status", "sensor.heat_pump"}, text \in {"heating", "cool", "on", "idle"}}
    \cup {[entity_id |-> entity_id, state |-> text, attributes |-> EmptyMapping] :
        entity_id \in {"binary_sensor.furnace", "binary_sensor.blower"}, text \in {"on", "off"}}
    \cup {[entity_id |-> "switch.hvac", state |-> "on", attributes |-> EmptyMapping]}

\* the states of the thermostat
ThermostatStates ==
    {[entity_id |-> "climate.thermostat", state |-> "heat",
      attributes |-> MakeAttributes(None, None, temperature)] : temperature \in TargetTemperatures}

\* the states of the humidity sensor
HumidityStates ==
    {[entity_id |-> "sensor.indoor_humidity", state |-> text, attributes |-> EmptyMapping] :
        text \in {"45.0", "unknown", "unavailable", "n/a"}}

\* what the collector finds when it reads its configured entities
SensorStores ==
    [temperature_entity : TemperatureStates \cup {NoSensorState},
     hvac_entity : ClimateHvacStates \cup OtherHvacStates \cup {NoSensorState},
     thermostat_entity : ThermostatStates \cup {NoSensorState},
     humidity_entity : HumidityStates \cup {NoSensorState, NotConfigured}]

\* humidity of _collect_reading with 0 for a value float does not accept
HumidityOf_ZeroDefault(humidity_state) ==
    IF humidity_state = NotConfigured THEN NoNumber
    ELSE IF humidity_state = NoSensorState THEN NoNumber
    ELSE IF humidity_state.state \in {"unknown", "unavailable"} THEN NoNumber
    ELSE IF IsKnown(ParseFloat(humidity_state.state)) THEN ParseFloat(humidity_state.state)
    ELSE Some(0)

\* humidity of _collect_reading: None unless the configured entity has a
\* state other than unknown and unavailable that float accepts
HumidityOf(humidity_state) ==
    IF humidity_state = NotConfigured THEN NoNumber
    ELSE IF humidity_state = NoSensorState THEN NoNumber
    ELSE IF humidity_state.state \in {"unknown", "unavailable"} THEN NoNumber
    ELSE ParseFloat(humidity_state.state)

\* float(thermostat_state.attributes.get('temperature', 0)): 0 for a missing
\* attribute; NoNumber where float raises TypeError (None)
TargetTempOf(thermostat_state) ==
    IF "temperature" \in DOMAIN thermostat_state.attributes
    THEN thermostat_state.attributes.temperature
    ELSE Some(0)

\* the first return of _collect_reading without the check of hvac_state
MissingRequired_HvacUnchecked(states) ==
    \/ states.temperature_entity = NoSensorState
    \/ states.thermostat_entity = NoSensorState

\* the first return of _collect_reading: a required state object is missing
MissingRequired(states) ==
    \/ states.temperature_entity = NoSensorState
    \/ states.hvac_entity = NoSensorState
    \/ states.thermostat_entity = NoSensorState

\* the second return of _collect_reading: float raised on a temperature
ConversionFails(states) ==
    \/ ~IsKnown(ParseFloat(states.temperature_entity.state))
    \/ ~IsKnown(TargetTempOf(states.thermostat_entity))

\* the reading _collect_reading creates
ReadingOf(states, timestamp) ==
    [timestamp |-> timestamp,
     indoor_temp |-> ValueOf(ParseFloat(states.temperature_entity.state)),
     indoor_humidity |-> HumidityOf(states.humidity_entity),
     hvac_state |-> FinalHvacAction(HvacActionOfReading(states.temperature_entity, states.hvac_entity)),
     target_temp |-> ValueOf(TargetTempOf(states.thermostat_entity))]

\* the callers of _send_sensor_batch
NoSend == {}

Callers == {"_collect_reading", "_send_hourly_batch", "_send_daily_summary", "async_stop"}

\* the variables SimpleDataCollector does not touch
otherVars == <<now, today, hass_states, collectorVars, daily_hvac_cycles, daily_temperature_data,
               daily_weather_data, aggregatorVars>>

\* _collect_reading, called with the value of _manual_trigger.  A reading
\* made under the flag is posted at once; the flag is cleared when that
\* _send_sensor_batch returns.
CollectReading(manual_trigger) ==
    /\ poll_count < MaxPolls
    /\ poll_count' = poll_count + 1
    /\ IF MissingRequired(sensor_states) \/ ConversionFails(sensor_states)
       THEN UNCHANGED <<pending_readings, sensor_batch, last_payload>>
       ELSE /\ pending_readings' = Append(pending_readings, ReadingOf(sensor_states, poll_count + 1))
            /\ IF manual_trigger
               THEN /\ sensor_batch' = sensor_batch \cup {"_collect_reading"}
                    /\ last_payload' = pending_readings'
               ELSE UNCHANGED <<sensor_batch, last_payload>>
    /\ UNCHANGED <<sensor_states, _unsub, user_inputs_today, summary_request, last_outcome, failed_at, otherVars>>

\* the 5 minute timer calls _collect_reading
TimedCollectReading ==
    /\ _unsub["5min"] = "subscribed"
    /\ "_collect_reading" \notin sensor_batch
    /\ CollectReading(_manual_trigger)
    /\ UNCHANGED _manual_trigger

\* trigger_manual_reading
TriggerManualReading ==
    /\ "_collect_reading" \notin sensor_batch
    /\ _manual_trigger' = TRUE
    /\ CollectReading(TRUE)

\* the host changes the state of the configured temperature sensor
SensorStateChanged(new_state) ==
    /\ new_state # sensor_states.temperature_entity
    /\ sensor_states' = [sensor_states EXCEPT !.temperature_entity = new_state]
    /\ UNCHANGED <<pending_readings, _manual_trigger, _unsub, user_inputs_today, sensor_batch,
                   summary_request, last_payload, poll_count, last_outcome, failed_at, otherVars>>

\* log_user_input
LogUserInput(service) ==
    /\ Len(user_inputs_today) < MaxPolls
    /\ user_inputs_today' = Append(user_inputs_today, [service |-> service])
    /\ UNCHANGED <<sensor_states, pending_readings, _manual_trigger, _unsub, sensor_batch,
                   summary_request, last_payload, poll_count, last_outcome, failed_at, otherVars>>

\* _send_hourly_batch up to the request of _send_sensor_batch
SendHourlyBatch ==
    /\ _unsub["hourly"] = "subscribed"
    /\ "_send_hourly_batch" \notin sensor_batch
    /\ pending_readings # <<>>
    /\ sensor_batch' = sensor_batch \cup {"_send_hourly_batch"}
    /\ last_payload' = pending_readings
    /\ UNCHANGED <<sensor_states, pending_readings, _manual_trigger, _unsub, user_inputs_today,
                   summary_request, poll_count, last_outcome, failed_at, otherVars>>

\* _send_daily_summary up to its first request: that of _send_sensor_batch
\* when readings are pending, that of the summary otherwise
SendDailySummary ==
    /\ _unsub["midnight"] = "subscribed"
    /\ "_send_daily_summary" \notin sensor_batch
    /\ ~summary_request
    /\ IF pending_readings # <<>>
       THEN /\ sensor_batch' = sensor_batch \cup {"_send_daily_summary"}
            /\ last_payload' = pending_readings
            /\ UNCHANGED summary_request
       ELSE /\ summary_request' = TRUE
            /\ UNCHANGED <<sensor_batch, last_payload>>
    /\ UNCHANGED <<sensor_states, pending_readings, _manual_trigger, _unsub, user_inputs_today,
                   poll_count, last_outcome, failed_at, otherVars>>

\* pending_readings after the response of _send_sensor_batch with every
\* outcome taken for a success
AfterSensorBatch_AlwaysClear(readings, outcome) == <<>>

\* pending_readings after the response of _send_sensor_batch
AfterSensorBatch(readings, outcome) ==
    IF outcome = "200" THEN <<>> ELSE readings

\* _send_sensor_batch from the response on, with a failure that reaches the
\* scheduler and ends the timers
FinishSendSensorBatch_FailureEndsTimers(caller, outcome) ==
    /\ caller \in sensor_batch
    /\ sensor_batch' = sensor_batch \ {caller}
    /\ pending_readings' = AfterSensorBatch(pending_readings, outcome)
    /\ last_outcome' = outcome
    /\ failed_at' = IF outcome = "200" THEN failed_at ELSE poll_count
    /\ _manual_trigger' = IF caller = "_collect_reading" THEN FALSE ELSE _manual_trigger
    /\ summary_request' = IF caller = "_send_daily_summary" THEN TRUE ELSE summary_request
    /\ _unsub' = IF outcome = "200" THEN _unsub ELSE [timer \in DOMAIN _unsub |-> "released"]
    /\ UNCHANGED <<sensor_states, user_inputs_today, last_payload, poll_count, otherVars>>

\* _send_sensor_batch from the response on, and what its caller does next
FinishSendSensorBatch(caller, outcome) ==
    /\ caller \in sensor_batch
    /\ sensor_batch' = sensor_batch \ {caller}
    /\ pending_readings' = AfterSensorBatch(pending_readings, outcome)
    /\ last_outcome' = outcome
    /\ failed_at' = IF outcome = "200" THEN failed_at ELSE poll_count
    /\ _manual_trigger' = IF caller = "_collect_reading" THEN FALSE ELSE _manual_trigger
    /\ summary_request' = IF caller = "_send_daily_summary" THEN TRUE ELSE summary_request
    /\ UNCHANGED <<sensor_states, _unsub, user_inputs_today, last_payload, poll_count, otherVars>>

\* _send_daily_summary from the response on: the day's user inputs are
\* cleared unless the request raised
FinishSendDailySummary(outcome) ==
    /\ summary_request
    /\ summary_request' = FALSE
    /\ user_inputs_today' = IF outcome \in {"200", "non-200"} THEN <<>> ELSE user_inputs_today
    /\ last_outcome' = outcome
    /\ failed_at' = IF outcome = "200" THEN failed_at ELSE poll_count
    /\ UNCHANGED <<sensor_states, pending_readings, _manual_trigger, _unsub, sensor_batch,
                   last_payload, poll_count, otherVars>>

\* async_stop: release the three timers, then post the pending readings
AsyncStop ==
    /\ _unsub["5min"] = "subscribed"
    /\ _unsub' = [timer \in DOMAIN _unsub |-> "released"]
    /\ "async_stop" \notin sensor_batch
    /\ IF pending_readings # <<>>
       THEN /\ sensor_batch' = sensor_batch \cup {"async_stop"}
            /\ last_payload' = pending_readings
       ELSE UNCHANGED <<sensor_batch, last_payload>>
    /\ UNCHANGED <<sensor_states, pending_readings, _manual_trigger, user_inputs_today,
                   summary_request, poll_count, last_outcome, failed_at, otherVars>>

(***************************************************************************)
(* The collector after construction and async_setup.                       *)
(***************************************************************************)
\* the states the monitored HVAC entities are in when monitoring starts
InitialHvacStates == {s \in HvacStates : s.hvac_action \in {"idle", "heating"} /\ s.current_temperature = Some(68000)}

\* the collector and its aggregator after construction and async_setup, for
\* a state store, a configured collection level and the data points queued
InitWith(states, level, queue) ==
    /\ now = 0
    /\ today = 1
    /\ hass_states = states
    /\ collection_level = level
    /\ data_queue = queue
    /\ _last_states = states
    /\ _last_hvac_action = None
    /\ _hvac_cycle_start = NoNumber
    /\ _hvac_cycle_start_temp = NoNumber
    /\ daily_hvac_cycles = <<>>
    /\ daily_temperature_data = BaselineTemperatureData(states, 0)
    /\ daily_user_inputs = <<>>
    /\ daily_weather_data = BaselineWeatherData(states, 0)
    /\ historical_daily_data = <<>>
    /\ last_hvac_state = BaselineCycleStateOf(states, 0, None, NoNumber)[1]
    /\ current_cycle_start = BaselineCycleStateOf(states, 0, None, NoNumber)[2]
    /\ daily_report = NoReport
    /\ _midnight_timer = TRUE
    /\ batch = <<>>
    /\ last_outcome = None
    /\ last_call = [e \in AllEntities |-> NoCall]

\* the collector and its aggregator after construction and async_setup, for
\* a state store and a configured collection level
InitOf(states, level) == InitWith(states, level, <<>>)

\* SimpleDataCollector after construction and async_start, which subscribes
\* the three timers and collects a first reading
InitSimple(states) ==
    /\ sensor_states = states
    /\ pending_readings = IF MissingRequired(states) \/ ConversionFails(states)
                          THEN <<>>
                          ELSE <<ReadingOf(states, 0)>>
    /\ _manual_trigger = FALSE
    /\ _unsub = [timer \in {"5min", "hourly", "midnight"} |-> "subscribed"]
    /\ user_inputs_today = <<>>
    /\ sensor_batch = NoSend
    /\ summary_request = FALSE
    /\ last_payload = <<>>
    /\ poll_count = 0
    /\ failed_at = -1

\* SimpleDataCollector after construction, before async_start
InitConstructed(states) ==
    /\ sensor_states = states
    /\ pending_readings = <<>>
    /\ _manual_trigger = FALSE
    /\ _unsub = [timer \in {"5min", "hourly", "midnight"} |-> None]
    /\ user_inputs_today = <<>>
    /\ sensor_batch = NoSend
    /\ summary_request = FALSE
    /\ last_payload = <<>>
    /\ poll_count = 0
    /\ failed_at = -1

\* async_start: subscribe the three timers and collect a first reading,
\* which is posted at once when _manual_trigger is set
AsyncStart ==
    /\ _unsub["5min"] = None
    /\ "_collect_reading" \notin sensor_batch
    /\ _unsub' = [timer \in DOMAIN _unsub |-> "subscribed"]
    /\ IF MissingRequired(sensor_states) \/ ConversionFails(sensor_states)
       THEN UNCHANGED <<pending_readings, sensor_batch, last_payload>>
       ELSE /\ pending_readings' = Append(pending_readings, ReadingOf(sensor_states, 0))
            /\ IF _manual_trigger
               THEN /\ sensor_batch' = sensor_batch \cup {"_collect_reading"}
                    /\ last_payload' = pending_readings'
               ELSE UNCHANGED <<sensor_batch, last_payload>>
    /\ UNCHANGED <<sensor_states, _manual_trigger, user_inputs_today, summary_request,
                   poll_count, last_outcome, failed_at, otherVars>>

\* get_collection_stats
GetCollectionStats ==
    [pending_readings |-> Len(pending_readings),
     collection_active |-> _unsub["5min"] # None,
     daily_summary_active |-> _unsub["midnight"] # None,
     user_inputs_today |-> Len(user_inputs_today)]

\* a store in which every configured entity has a valid state
ValidSensorStore ==
    [temperature_entity |-> [entity_id |-> "sensor.indoor_temperature", state |-> "69.5", attributes |-> EmptyMapping],
     hvac_entity |-> [entity_id |-> "climate.hvac", state |-> "heat",
                      attributes |-> MakeAttributes("heating", None, <<Some(700)>>)],
     thermostat_entity |-> [entity_id |-> "climate.thermostat", state |-> "heat",
                            attributes |-> MakeAttributes(None, None, <<Some(700)>>)],
     humidity_entity |-> [entity_id |-> "sensor.indoor_humidity", state |-> "45.0", attributes |-> EmptyMapping]]

\* a state store in which only the HVAC status entities exist
HvacOnlyStores ==
    {states \in [AllEntities -> InitialHvacStates \cup {NoState}] :
        /\ \A e \in HvacEntities : states[e] \in InitialHvacStates \cap HvacStatesOf(e)
        /\ \A e \in AllEntities \ HvacEntities : states[e] = NoState}

\* Specification of the cycle tracker: the monitored HVAC status entities
\* change state.
Init ==
    /\ \E states \in HvacOnlyStores, level \in {"minimal", "standard", "detailed"} :
          InitOf(states, level)
    /\ InitSimple(ValidSensorStore)

HvacStateChanged ==
    \E entity_id \in HvacEntities, delay \in Delays :
        \E new_state \in HvacStatesOf(entity_id) :
            AsyncStateChanged(entity_id, new_state, delay)

Next == HvacStateChanged

Spec == Init /\ [][Next]_vars

\* Specification of the rolling window: days pass, the learned rates
\* change, and every midnight rolls the day over.
NextWindow ==
    \/ AsyncMidnightCollection
    \/ \E outcome \in SendOutcomes : FinishDailyReport(outcome)
    \/ \E new_state \in ThermalStates \cup {UnavailableState, NoState} : ThermalLearningUpdated(new_state)

\* CurveControlDataCollector set up at level standard while the HVAC status
\* entities are idle
InitIdle ==
    \E states \in HvacOnlyStores :
        /\ \A e \in HvacEntities : states[e].hvac_action = "idle"
        /\ InitOf(states, "standard")

InitWindow == InitIdle /\ InitSimple(ValidSensorStore)

SpecWindow == InitWindow /\ [][NextWindow]_vars

\* the states the thermostat of the day specification takes
ClimateStates ==
    {[state |-> "heat", hvac_action |-> "idle", current_temperature |-> Some(68000),
      temperature |-> Some(71006), humidity |-> NoNumber],
     [state |-> "heat", hvac_action |-> "heating", current_temperature |-> Some(71006),
      temperature |-> Some(71006), humidity |-> NoNumber]}

\* the states the weather entity takes
WeatherStates ==
    {[state |-> "sunny", hvac_action |-> None, current_temperature |-> NoNumber,
      temperature |-> Some(68000), humidity |-> Some(71006)],
     [state |-> STATE_UNKNOWN, hvac_action |-> None, current_temperature |-> NoNumber,
      temperature |-> NoNumber, humidity |-> NoNumber]}

\* a state store with the HVAC status entities, the thermostat and a weather
\* entity
DayStores ==
    {states \in [AllEntities -> InitialHvacStates \cup ClimateStates \cup WeatherStates \cup {NoState}] :
        /\ \A e \in HvacEntities : states[e] \in InitialHvacStates /\ states[e].hvac_action = "idle"
        /\ \A e \in ClimateEntities : states[e] \in ClimateStates
        /\ \A e \in WeatherEntities : states[e] \in WeatherStates
        /\ \A e \in ThermalEntities \cup MonitoredThermalEntities \cup MonitoredWeatherEntities :
              states[e] = NoState}

\* the day specification stops the calendar at day LastDay
LastDay == 2

\* the day specification stops the clock at LastEvent seconds
LastEvent == 2

\* Specification of the day: the thermostat and the weather change, services
\* are called, midnight rolls the day over, and the aggregator is cleaned up.
InitDay ==
    /\ \E states \in DayStores : InitOf(states, "standard")
    /\ InitSimple(ValidSensorStore)

NextDay ==
    \/ /\ now < LastEvent
       /\ \E entity_id \in ClimateEntities, delay \in Delays :
             \E new_state \in ClimateStates \cup {UnavailableState} :
                 AsyncStateChanged(entity_id, new_state, delay)
    \/ \E new_state \in WeatherStates : WeatherUpdated(new_state)
    \/ /\ now < LastEvent
       /\ \E call \in Services, delay \in Delays : AsyncServiceCalled(call, delay)
    \/ today < LastDay /\ AsyncMidnightCollection
    \/ \E outcome \in SendOutcomes : FinishDailyReport(outcome)
    \/ AsyncCleanup

SpecDay == InitDay /\ [][NextDay]_vars

\* the configured collection levels
COLLECTION_LEVELS == {"minimal", "standard", "detailed"}

\* Specification of the collection level: at each level the monitored
\* entities of every kind change state and services are called.
InitLevel ==
    /\ \E states \in HvacOnlyStores, level \in COLLECTION_LEVELS :
          /\ \A e \in HvacEntities : states[e].hvac_action = "idle"
          /\ InitOf(states, level)
    /\ InitSimple(ValidSensorStore)

NextLevel ==
    \/ \E new_state \in HvacStatesOf("switch.curve_control_hvac"), delay \in Delays :
          AsyncStateChanged("switch.curve_control_hvac", new_state, delay)
    \/ \E entity_id \in ClimateEntities, new_state \in ClimateStates, delay \in Delays :
          AsyncStateChanged(entity_id, new_state, delay)
    \/ \E entity_id \in MonitoredThermalEntities, new_state \in ThermalStates, delay \in Delays :
          AsyncStateChanged(entity_id, new_state, delay)
    \/ \E entity_id \in MonitoredWeatherEntities, new_state \in WeatherStates, delay \in Delays :
          AsyncStateChanged(entity_id, new_state, delay)
    \/ \E call \in Services, delay \in Delays : AsyncServiceCalled(call, delay)

SpecLevel == InitLevel /\ [][NextLevel]_vars

\* Specification of cycles across midnight: at level standard the HVAC status
\* entities change state while midnight rolls the day over and the report of
\* the closed day is sent.
InitRollover ==
    /\ \E states \in HvacOnlyStores :
          /\ \A e \in HvacEntities : states[e].hvac_action = "idle"
          /\ InitOf(states, "standard")
    /\ InitSimple(ValidSensorStore)

NextRollover ==
    \/ HvacStateChanged
    \/ today < LastDay /\ AsyncMidnightCollection
    \/ \E outcome \in SendOutcomes : FinishDailyReport(outcome)

SpecRollover == InitRollover /\ [][NextRollover]_vars

\* the items the summary specification records in a day
MaxItems == 3

\* the variables the record methods of the aggregator leave alone
recordFrame == <<now, today, hass_states, collectorVars, historical_daily_data, last_hvac_state,
                 current_cycle_start, daily_report, _midnight_timer, last_outcome, simpleVars>>

\* the first day is open and has room for another item
DayIsOpen ==
    /\ today = 1
    /\ daily_report = NoReport
    /\ Len(daily_hvac_cycles) + Len(daily_temperature_data) + Len(daily_user_inputs)
          + Len(daily_weather_data) < MaxItems

\* DailyDataAggregator.record_hvac_cycle, called with a cycle of the given
\* action that ran for the given seconds
RecordHvacCycle(action, seconds) ==
    /\ DayIsOpen
    /\ daily_hvac_cycles' = record_hvac_cycle(daily_hvac_cycles, action, now, now + seconds, 68000, 71006)
    /\ UNCHANGED <<daily_temperature_data, daily_user_inputs, daily_weather_data, recordFrame>>

\* the thermostat states recorded by the summary specification: every field
\* missing; a current temperature of 0; current and target temperature;
\* current temperature and humidity; a target and a humidity of 0
TemperatureSamples ==
    {[state |-> "heat", hvac_action |-> "idle", current_temperature |-> NoNumber,
      temperature |-> NoNumber, humidity |-> NoNumber],
     [state |-> "heat", hvac_action |-> "idle", current_temperature |-> Some(0),
      temperature |-> NoNumber, humidity |-> NoNumber],
     [state |-> "heat", hvac_action |-> "idle", current_temperature |-> Some(68000),
      temperature |-> Some(71006), humidity |-> NoNumber],
     [state |-> "heat", hvac_action |-> "idle", current_temperature |-> Some(71006),
      temperature |-> NoNumber, humidity |-> Some(45000)],
     [state |-> "heat", hvac_action |-> "idle", current_temperature |-> NoNumber,
      temperature |-> Some(0), humidity |-> Some(0)]}

\* DailyDataAggregator.record_temperature_data
RecordTemperatureData(entity_id, state) ==
    /\ DayIsOpen
    /\ daily_temperature_data' = record_temperature_data(daily_temperature_data, entity_id, state, now)
    /\ UNCHANGED <<daily_hvac_cycles, daily_user_inputs, daily_weather_data, recordFrame>>

\* DailyDataAggregator.record_user_input
RecordUserInput(service) ==
    /\ DayIsOpen
    /\ daily_user_inputs' = record_user_input(daily_user_inputs, service, now)
    /\ UNCHANGED <<daily_hvac_cycles, daily_temperature_data, daily_weather_data, recordFrame>>

\* the weather states recorded by the summary specification
WeatherSamples ==
    {[state |-> condition, hvac_action |-> None, current_temperature |-> NoNumber,
      temperature |-> Some(68000), humidity |-> NoNumber] : condition \in {"sunny", "rainy"}}

\* DailyDataAggregator.record_weather_data
RecordWeatherData(entity_id, state) ==
    /\ DayIsOpen
    /\ daily_weather_data' = record_weather_data(daily_weather_data, entity_id, state, now)
    /\ UNCHANGED <<daily_hvac_cycles, daily_temperature_data, daily_user_inputs, recordFrame>>

\* Specification of the daily summary: items are recorded during the first
\* day, then midnight aggregates them and rolls the day over.
NextSummary ==
    \/ \E action \in {"heating", "cooling"}, seconds \in {60, 120} : RecordHvacCycle(action, seconds)
    \/ \E entity_id \in ClimateEntities, state \in TemperatureSamples : RecordTemperatureData(entity_id, state)
    \/ \E service \in {"trigger_manual_reading", "get_sensor_status"} : RecordUserInput(service)
    \/ \E entity_id \in MonitoredWeatherEntities, state \in WeatherSamples : RecordWeatherData(entity_id, state)
    \/ today < LastDay /\ AsyncMidnightCollection
    \/ \E outcome \in SendOutcomes : FinishDailyReport(outcome)

SpecSummary == InitWindow /\ [][NextSummary]_vars

\* Specification of the batches of readings: the temperature sensor comes
\* and goes, readings are collected on the timer and on request, the hourly
\* and the midnight timer send them, and the collector is stopped.
NextSimple ==
    \/ \E new_state \in {NoSensorState, ValidSensorStore.temperature_entity} : SensorStateChanged(new_state)
    \/ TimedCollectReading
    \/ TriggerManualReading
    \/ \E service \in {"trigger_manual_reading"} : LogUserInput(service)
    \/ SendHourlyBatch
    \/ SendDailySummary
    \/ \E caller \in Callers, outcome \in SendOutcomes : FinishSendSensorBatch(caller, outcome)
    \/ \E outcome \in SendOutcomes : FinishSendDailySummary(outcome)
    \/ AsyncStop

SpecSimple == InitWindow /\ [][NextSimple]_vars

\* Specification of the life of SimpleDataCollector: it is constructed,
\* started, used and stopped.
InitLifecycle == InitIdle /\ InitConstructed(ValidSensorStore)

NextLifecycle ==
    \/ AsyncStart
    \/ NextSimple

SpecLifecycle == InitLifecycle /\ [][NextLifecycle]_vars

\* the data points of size user inputs that were queued, one a second, before
\* the clock of the model started
Backlog(size) == [i \in 1..size |-> [event_type |-> EVENT_USER_INPUT, timestamp |-> i - size]]

\* the sizes of the backlog: empty, below, at and above a batch, and near and
\* at MAX_QUEUE_SIZE
BacklogSizes == {0, 3, BATCH_SIZE, BATCH_SIZE + 2, MAX_QUEUE_SIZE - 2, MAX_QUEUE_SIZE}

\* the queue specification sends batches while the queue is within
\* MaxBatches batches of empty or of full
MaxBatches == 2

\* Specification of the data queue: services are called while batches of the
\* backlog are sent.
InitQueue ==
    /\ \E states \in HvacOnlyStores, size \in BacklogSizes :
          /\ \A e \in HvacEntities : states[e].hvac_action = "idle"
          /\ InitWith(states, "standard", Backlog(size))
    /\ InitSimple(ValidSensorStore)

NextQueue ==
    \/ \E call \in {c \in Services : c.service # "get_sensor_status"}, delay \in Delays :
          AsyncServiceCalled(call, delay)
    \/ /\ \/ Len(data_queue) < MaxBatches * BATCH_SIZE
          \/ Len(data_queue) > MAX_QUEUE_SIZE - MaxBatches * BATCH_SIZE
       /\ AsyncCollectAndSend
    \/ \E outcome \in SendOutcomes : FinishSendDataBatch(outcome)

SpecQueue == InitQueue /\ [][NextQueue]_vars

\* Specification of the poll: whatever the collector finds in the state
\* store, the 5 minute timer calls _collect_reading.
InitPoll == InitIdle /\ \E states \in SensorStores : InitSimple(states)

NextPoll == TimedCollectReading

SpecPoll == InitPoll /\ [][NextPoll]_vars

(***************************************************************************)
(* Properties of the cycle tracker.                                        *)
(***************************************************************************)
Abs(x) == IF x < 0 THEN 0 - x ELSE x

Last(seq) == seq[Len(seq)]

\* hundredths of a minute h is `seconds` in minutes, to the 2 decimals kept
IsMinutesOf(h, seconds) == 2 * Abs(60 * h - 100 * seconds) <= 60

\* hundredths of a degree h is `thousandths` in degrees, to the 2 decimals kept
IsDegreesOf(h, thousandths) == 2 * Abs(10 * h - thousandths) <= 10

\* this step calls _track_hvac_cycle for entity e
TrackerCalled(e) == last_call'[e] # last_call[e]

\* no call for another entity came after the last call for e
IsLatestCall(e) == \A f \in HvacEntities \ {e} : last_call[f].at < last_call[e].at

\* call c is the change from action a to action b
IsChange(c, a, b) == c.old_hvac_action = a /\ c.hvac_action = b

TrackerIsReset ==
    /\ _last_hvac_action = None
    /\ _hvac_cycle_start = NoNumber
    /\ _hvac_cycle_start_temp = NoNumber

\* this step appends exactly one cycle to daily_hvac_cycles
OneCycleAppended ==
    /\ Len(daily_hvac_cycles') = Len(daily_hvac_cycles) + 1
    /\ SubSeq(daily_hvac_cycles', 1, Len(daily_hvac_cycles)) = daily_hvac_cycles

\* C1: when the tracker is given idle -> heating and then heating -> idle,
\* with a known temperature at both events, the second call appends exactly
\* one cycle; its action is "heating", it runs from the start event to the
\* end event, and its duration is that time in minutes (to 2 decimals).
C1_HeatingCycleRecorded ==
    [][\A e \in HvacEntities :
          /\ (TrackerCalled(e) /\ IsChange(last_call'[e], "idle", "heating"))
             => daily_hvac_cycles' = daily_hvac_cycles
          /\ (/\ TrackerCalled(e)
              /\ IsChange(last_call'[e], "heating", "idle")
              /\ IsKnown(last_call'[e].current_temp)
              /\ IsChange(last_call[e], "idle", "heating")
              /\ IsKnown(last_call[e].current_temp)
              /\ IsLatestCall(e))
             => /\ OneCycleAppended
                /\ LET c == Last(daily_hvac_cycles')
                   IN  /\ c.action = "heating"
                       /\ c.start_time = last_call[e].at
                       /\ c.end_time = last_call'[e].at
                       /\ IsMinutesOf(c.duration_minutes, last_call'[e].at - last_call[e].at)]_vars

\* a heating cycle of 2 seconds (0.03 minutes) has just been recorded
C1_Witness ==
    \E e \in HvacEntities :
        /\ IsLatestCall(e)
        /\ IsChange(last_call[e], "heating", "idle")
        /\ IsKnown(last_call[e].current_temp)
        /\ Len(daily_hvac_cycles) = last_call[e].cycles_before + 1
        /\ Last(daily_hvac_cycles).action = "heating"
        /\ Last(daily_hvac_cycles).end_time = last_call[e].at
        /\ Last(daily_hvac_cycles).start_time = last_call[e].at - 2
        /\ Last(daily_hvac_cycles).duration_minutes = 3

\* C2: a direct heating -> cooling change of an open heating cycle records
\* a "heating" cycle ending at the change and opens a cooling cycle that
\* starts at the change.
C2_DirectChangeClosesAndOpens ==
    [][\A e \in HvacEntities :
          (/\ TrackerCalled(e)
           /\ IsChange(last_call'[e], "heating", "cooling")
           /\ IsKnown(last_call'[e].current_temp)
           /\ IsChange(last_call[e], "idle", "heating")
           /\ IsKnown(last_call[e].current_temp)
           /\ IsLatestCall(e))
          => /\ OneCycleAppended
             /\ Last(daily_hvac_cycles').action = "heating"
             /\ Last(daily_hvac_cycles').end_time = last_call'[e].at
             /\ _last_hvac_action' = "cooling"
             /\ _hvac_cycle_start' = Some(last_call'[e].at)
             /\ _hvac_cycle_start_temp' = last_call'[e].current_temp]_vars

\* C2, its consequence: the cooling cycle recorded at cooling -> idle after
\* a direct heating -> cooling change starts at that change.
C2_CoolingCycleStartsAtChange ==
    [][\A e \in HvacEntities :
          (/\ TrackerCalled(e)
           /\ IsChange(last_call'[e], "cooling", "idle")
           /\ IsChange(last_call[e], "heating", "cooling")
           /\ IsLatestCall(e)
           /\ Len(daily_hvac_cycles') > Len(daily_hvac_cycles))
          => Last(daily_hvac_cycles').start_time = last_call[e].at]_vars

\* C3: "off" is treated like "idle": off -> heating/cooling opens a cycle
\* at the event, and heating/cooling -> off resets the tracker and records
\* the open cycle when both temperatures are known.
C3_OffLikeIdle ==
    [][\A e \in HvacEntities :
          /\ (/\ TrackerCalled(e)
              /\ last_call'[e].old_hvac_action = "off"
              /\ last_call'[e].hvac_action \in {"heating", "cooling"})
             => /\ _last_hvac_action' = last_call'[e].hvac_action
                /\ _hvac_cycle_start' = Some(last_call'[e].at)
                /\ _hvac_cycle_start_temp' = last_call'[e].current_temp
          /\ (/\ TrackerCalled(e)
              /\ last_call'[e].old_hvac_action \in {"heating", "cooling"}
              /\ last_call'[e].hvac_action = "off")
             => /\ TrackerIsReset'
                /\ (/\ IsKnown(_hvac_cycle_start)
                    /\ IsKnown(_hvac_cycle_start_temp)
                    /\ IsKnown(last_call'[e].current_temp))
                   => OneCycleAppended]_vars

\* C4: the open cycle is kept per entity: the cycle recorded at an entity's
\* end event carries the time and temperature of that entity's own start
\* event, whatever calls for other entities came in between, and an
\* entity's idle -> active -> idle sequence with known temperatures
\* records one cycle.
C4_CyclePerEntity ==
    [][\A e \in HvacEntities : \A a \in {"heating", "cooling"} :
          (/\ TrackerCalled(e)
           /\ IsChange(last_call'[e], a, "idle")
           /\ IsKnown(last_call'[e].current_temp)
           /\ IsChange(last_call[e], "idle", a)
           /\ IsKnown(last_call[e].current_temp))
          => /\ OneCycleAppended
             /\ Last(daily_hvac_cycles').start_time = last_call[e].at
             /\ Last(daily_hvac_cycles').start_temperature = ValueOf(last_call[e].current_temp)]_vars

\* C5: a cycle end whose current temperature is unknown appends nothing
\* and resets the tracker.
C5_UnknownEndTempDiscards ==
    [][\A e \in HvacEntities :
          (/\ TrackerCalled(e)
           /\ last_call'[e].old_hvac_action \in {"heating", "cooling"}
           /\ last_call'[e].hvac_action = "idle"
           /\ ~IsKnown(last_call'[e].current_temp))
          => /\ daily_hvac_cycles' = daily_hvac_cycles
             /\ TrackerIsReset']_vars

\* an open cycle with a known start temperature has just been ended by an
\* event without a temperature
C5_Witness ==
    \E e \in HvacEntities :
        /\ IsLatestCall(e)
        /\ last_call[e].old_hvac_action \in {"heating", "cooling"}
        /\ last_call[e].hvac_action = "idle"
        /\ ~IsKnown(last_call[e].current_temp)
        /\ IsKnown(last_call[e].cycle_start_before)
        /\ IsKnown(last_call[e].cycle_start_temp_before)
        /\ Len(daily_hvac_cycles) = last_call[e].cycles_before
        /\ TrackerIsReset

\* C6: a cycle end observed while no cycle is open appends nothing and
\* leaves the tracker with no open cycle.
C6_EndWithoutOpenCycleDropped ==
    [][\A e \in HvacEntities :
          (/\ TrackerCalled(e)
           /\ last_call'[e].old_hvac_action \in {"heating", "cooling"}
           /\ last_call'[e].hvac_action = "idle"
           /\ ~IsKnown(_hvac_cycle_start))
          => /\ daily_hvac_cycles' = daily_hvac_cycles
             /\ TrackerIsReset']_vars

\* a cycle end with a known temperature has just been observed with no
\* cycle open
C6_Witness ==
    \E e \in HvacEntities :
        /\ IsLatestCall(e)
        /\ last_call[e].old_hvac_action \in {"heating", "cooling"}
        /\ last_call[e].hvac_action = "idle"
        /\ IsKnown(last_call[e].current_temp)
        /\ ~IsKnown(last_call[e].cycle_start_before)
        /\ Len(daily_hvac_cycles) = last_call[e].cycles_before
        /\ TrackerIsReset

\* this step is a state change of e in which the action stays heating
HeatingStays(e) ==
    /\ hass_states'[e] # hass_states[e]
    /\ hass_states[e].hvac_action = "heating"
    /\ hass_states'[e].hvac_action = "heating"

\* C7: events in which the action stays heating change neither the cycle
\* start time nor the start temperature (nor the buffer), and the cycle
\* recorded at heating -> idle has the temperature T0 of the idle ->
\* heating event as start_temperature, the temperature T2 of the end event
\* as end_temperature, and T2 - T0 (to 2 decimals) as temperature_change.
C7_StartAndEndTemperature ==
    /\ [][\A e \in HvacEntities :
             HeatingStays(e)
             => UNCHANGED <<_last_hvac_action, _hvac_cycle_start, _hvac_cycle_start_temp,
                            daily_hvac_cycles, last_call>>]_vars
    /\ [][\A e \in HvacEntities :
             (/\ TrackerCalled(e)
              /\ IsChange(last_call'[e], "heating", "idle")
              /\ IsKnown(last_call'[e].current_temp)
              /\ IsChange(last_call[e], "idle", "heating")
              /\ IsKnown(last_call[e].current_temp)
              /\ IsLatestCall(e))
             => /\ OneCycleAppended
                /\ LET c == Last(daily_hvac_cycles')
                       T0 == ValueOf(last_call[e].current_temp)
                       T2 == ValueOf(last_call'[e].current_temp)
                   IN  /\ c.start_temperature = T0
                       /\ c.end_temperature = T2
                       /\ IsDegreesOf(c.temperature_change, T2 - T0)]_vars

\* A heating cycle from 68.000 to 71.006 degrees has been recorded over 2
\* seconds in which only its own entity changed state: the event in the
\* middle kept the action heating.
C7_Witness ==
    \E e \in HvacEntities :
        /\ \A f \in HvacEntities \ {e} : last_call[f] = NoCall /\ _last_states[f] = hass_states[f]
        /\ IsChange(last_call[e], "heating", "idle")
        /\ Len(daily_hvac_cycles) = 1
        /\ daily_hvac_cycles[1].action = "heating"
        /\ daily_hvac_cycles[1].end_time = last_call[e].at
        /\ daily_hvac_cycles[1].start_time = last_call[e].at - 2
        /\ last_call[e].at = now
        /\ now = 3
        /\ daily_hvac_cycles[1].start_temperature = 68000
        /\ daily_hvac_cycles[1].end_temperature = 71006
        /\ daily_hvac_cycles[1].temperature_change = 301

(***************************************************************************)
(* Properties of the rolling window and the moving averages.               *)
(***************************************************************************)
\* C8: the historical window never holds more than 8 summaries, and a
\* rollover that finds 8 drops the oldest and keeps the other 7 in their
\* order, followed by the new summary.
C8_WindowBounded ==
    /\ [](Len(historical_daily_data) <= 8)
    /\ [][(historical_daily_data' # historical_daily_data /\ Len(historical_daily_data) = 8)
          => /\ Len(historical_daily_data') = 8
             /\ SubSeq(historical_daily_data', 1, 7) = SubSeq(historical_daily_data, 2, 8)
             /\ historical_daily_data'[8] = daily_report.daily_summary
             /\ historical_daily_data'[8] \notin {historical_daily_data[i] : i \in 1..8}]_vars

\* the ninth rollover has completed: the window holds days 2 to 9
C8_Witness ==
    /\ Len(historical_daily_data) = 8
    /\ historical_daily_data[1].date = 2
    /\ historical_daily_data[8].date = 9
    /\ daily_report = NoReport

RateKeys == {"heating_rate", "cooling_rate", "natural_rate"}

\* the keys of a rate in thermal_rates and in moving_averages
LearnedKey(rate) ==
    IF rate = "heating_rate" THEN "heating_rate_learned"
    ELSE IF rate = "cooling_rate" THEN "cooling_rate_learned" ELSE "natural_rate_learned"

AvgKey(rate) ==
    IF rate = "heating_rate" THEN "heating_rate_7day_avg"
    ELSE IF rate = "cooling_rate" THEN "cooling_rate_7day_avg" ELSE "natural_rate_7day_avg"

SamplesKey(rate) ==
    IF rate = "heating_rate" THEN "heating_rate_samples"
    ELSE IF rate = "cooling_rate" THEN "cooling_rate_samples" ELSE "natural_rate_samples"

\* the window summaries in which the rate is present
Qualifying(window, rate) ==
    {i \in 1..Len(window) :
        /\ LearnedKey(rate) \in DOMAIN window[i].thermal_rates
        /\ window[i].thermal_rates[LearnedKey(rate)] # NoNumber}

RECURSIVE SumOver(_, _, _)
SumOver(window, rate, indices) ==
    IF indices = {} THEN 0
    ELSE LET i == CHOOSE i \in indices : TRUE
         IN  window[i].thermal_rates[LearnedKey(rate)][1] + SumOver(window, rate, indices \ {i})

\* avg (in units of 1e-4) is the mean of n rates (in units of 1e-5) of the
\* given sum, to the 4 decimals kept
IsMeanOf(avg, sum, n) == 2 * Abs(10 * n * avg - sum) <= 10 * n

\* The moving averages of the report in flight were computed from the window
\* as it still is: the window changes only when the report completes.
ReportInFlight == daily_report # NoReport

\* C9: a moving average of a rate is reported only when at least 2
\* summaries of the window have that rate.
C9_AverageNeedsTwoQualifying ==
    ReportInFlight =>
        \A rate \in RateKeys :
            AvgKey(rate) \in DOMAIN daily_report.moving_averages
            => Cardinality(Qualifying(historical_daily_data, rate)) >= 2

\* C10: a reported moving average of a rate is the mean (to 4 decimals) of
\* the rate over exactly the window summaries that have it, and the
\* reported sample count is the number of those summaries.
C10_MeanOverPresent ==
    ReportInFlight =>
        \A rate \in RateKeys :
            AvgKey(rate) \in DOMAIN daily_report.moving_averages
            => LET used == Qualifying(historical_daily_data, rate)
               IN  /\ SamplesKey(rate) \in DOMAIN daily_report.moving_averages
                   /\ daily_report.moving_averages[SamplesKey(rate)] = Cardinality(used)
                   /\ used # {}
                   /\ IsMeanOf(daily_report.moving_averages[AvgKey(rate)],
                               SumOver(historical_daily_data, rate, used), Cardinality(used))

\* A report in flight carries a heating average over 2 of the 4 summaries
\* of the window: the 2 summaries without thermal rates are skipped, and
\* the mean of 0.00123 and 0.00134 (0.001285) is reported as 0.0013.
C10_Witness ==
    /\ ReportInFlight
    /\ Len(historical_daily_data) = 4
    /\ Cardinality(Qualifying(historical_daily_data, "heating_rate")) = 2
    /\ SumOver(historical_daily_data, "heating_rate", Qualifying(historical_daily_data, "heating_rate")) = 257
    /\ "heating_rate_7day_avg" \in DOMAIN daily_report.moving_averages
    /\ daily_report.moving_averages["heating_rate_7day_avg"] = 13
    /\ daily_report.moving_averages["heating_rate_samples"] = 2

(***************************************************************************)
(* Properties of the day rollover.                                         *)
(***************************************************************************)
\* a step in which _collect_and_send_daily_data returns
RolloverCompletes == daily_report # NoReport /\ daily_report' = NoReport

\* an entity whose state _collect_baseline_states records
IsAvailable(states, e) == states[e] # NoState /\ states[e].state \notin {STATE_UNAVAILABLE, STATE_UNKNOWN}

\* C11, as claimed: when a day rollover completes, all four accumulation
\* buffers of the aggregator are empty.
C11_BuffersEmptyAfterRollover ==
    [][RolloverCompletes =>
          /\ daily_hvac_cycles' = <<>>
          /\ daily_temperature_data' = <<>>
          /\ daily_user_inputs' = <<>>
          /\ daily_weather_data' = <<>>]_vars

\* C11, amended: when a day rollover completes, daily_hvac_cycles and
\* daily_user_inputs are empty, daily_temperature_data holds one baseline
\* record of the present state of each available thermostat and nothing
\* else, and daily_weather_data holds one baseline record of the present
\* state of the weather entity if that is available and nothing else.
C11_OnlyBaselineAfterRollover ==
    [][RolloverCompletes =>
          /\ daily_hvac_cycles' = <<>>
          /\ daily_user_inputs' = <<>>
          /\ Len(daily_temperature_data') = Cardinality({e \in ClimateEntities : IsAvailable(hass_states, e)})
          /\ \A i \in 1..Len(daily_temperature_data') :
                LET r == daily_temperature_data'[i]
                IN  /\ r.entity_id \in ClimateEntities
                    /\ r.timestamp = now
                    /\ r.current_temp = hass_states[r.entity_id].current_temperature
                    /\ r.hvac_action = hass_states[r.entity_id].hvac_action
          /\ Len(daily_weather_data') = Cardinality({e \in WeatherEntities : IsAvailable(hass_states, e)})
          /\ \A i \in 1..Len(daily_weather_data') :
                LET r == daily_weather_data'[i]
                IN  /\ r.entity_id \in WeatherEntities
                    /\ r.timestamp = now
                    /\ r.condition = hass_states[r.entity_id].state]_vars

\* a rollover has completed on a day with two temperature records and a user
\* input, and left one baseline record of the thermostat and one of the
\* weather
C11_Witness ==
    /\ daily_report = NoReport
    /\ Len(historical_daily_data) = 1
    /\ historical_daily_data[1].user_inputs.total_inputs = 1
    /\ historical_daily_data[1].temperature_data.actual_temperature.readings_count = 2
    /\ daily_hvac_cycles = <<>>
    /\ daily_user_inputs = <<>>
    /\ Len(daily_temperature_data) = 1
    /\ daily_temperature_data[1].timestamp = 2
    /\ Len(daily_weather_data) = 1

\* the report, or the data it was built from, is kept by the step
ReportPreserved ==
    \/ daily_report' = daily_report
    \/ /\ daily_hvac_cycles' = daily_hvac_cycles
       /\ daily_temperature_data' = daily_temperature_data
       /\ daily_user_inputs' = daily_user_inputs
       /\ daily_weather_data' = daily_weather_data

\* C12: a transport failure of the daily report (timeout, connection error,
\* non-200 status) preserves the report or the day's data for the next
\* scheduled trigger.
C12_FailedReportPreserved ==
    [][\A outcome \in SendOutcomes \ {"200"} : FinishDailyReport(outcome) => ReportPreserved]_vars

(***************************************************************************)
(* Properties of the batches of readings.                                  *)
(***************************************************************************)
\* the outcomes of a request other than a 200 response
Failures == SendOutcomes \ {"200"}

\* a step in which a request of _send_sensor_batch is posted
BatchPosted == \E caller \in Callers : caller \notin sensor_batch /\ caller \in sensor_batch'

\* C13: a batch send of SimpleDataCollector that ends in a timeout, a network
\* error or a non-200 status leaves pending_readings unchanged; every trigger
\* that finds readings pending posts all of them; and pending_readings loses
\* readings only in the step of a 200 response.
C13_FailedBatchRetained ==
    [][/\ \A caller \in Callers, outcome \in Failures :
             FinishSendSensorBatch(caller, outcome) => pending_readings' = pending_readings
       /\ BatchPosted => pending_readings' # <<>> /\ last_payload' = pending_readings'
       /\ (\E i \in 1..Len(pending_readings) : i > Len(pending_readings') \/ pending_readings'[i] # pending_readings[i])
             => \E caller \in Callers : FinishSendSensorBatch(caller, "200")]_vars

\* a send of two readings timed out, both are still pending, and the
\* midnight trigger has posted the same two readings again
C13_Witness ==
    /\ last_outcome = "timeout"
    /\ sensor_batch = {"_send_daily_summary"}
    /\ Len(pending_readings) = 2
    /\ last_payload = pending_readings

\* C20: async_stop makes exactly one attempt to send the pending readings,
\* with no retry after that attempt, and the attempt is made before the
\* timers are released.
C20_StopFlushesBeforeRelease ==
    [][/\ AsyncStop /\ pending_readings # <<>>
             => "async_stop" \in sensor_batch' /\ last_payload' = pending_readings
       /\ "async_stop" \in sensor_batch' => \A timer \in DOMAIN _unsub : _unsub'[timer] = "subscribed"
       /\ \A outcome \in SendOutcomes :
             FinishSendSensorBatch("async_stop", outcome) => ~BatchPosted]_vars

(***************************************************************************)
(* Properties of the data queue.                                           *)
(***************************************************************************)
\* C14: after a failed batch send no data point is lost: a point queued
\* while the send is in flight joins the queue without displacing another,
\* and the failure puts the batch back at the front, in its order, ahead of
\* every point the queue holds, also when the queue is near MAX_QUEUE_SIZE.
C14_FailedBatchRequeued ==
    [][/\ batch # <<>> /\ Len(data_queue') > 0 /\ data_queue' # data_queue /\ batch' = batch
             => SubSeq(data_queue', 1, Len(data_queue)) = data_queue
       /\ \A outcome \in Failures :
             FinishSendDataBatch(outcome) => data_queue' = batch \o data_queue]_vars

(***************************************************************************)
(* Properties of the poll.                                                 *)
(***************************************************************************)
\* a step in which _collect_reading runs
PollStep == poll_count' = poll_count + 1

\* a step that appends one reading to pending_readings and keeps the others
ReadingAppended ==
    /\ Len(pending_readings') = Len(pending_readings) + 1
    /\ SubSeq(pending_readings', 1, Len(pending_readings)) = pending_readings

\* the buffers of the collectors and of the aggregator keep their length
BuffersKeepLength ==
    /\ Len(pending_readings') = Len(pending_readings)
    /\ Len(user_inputs_today') = Len(user_inputs_today)
    /\ Len(data_queue') = Len(data_queue)
    /\ Len(daily_hvac_cycles') = Len(daily_hvac_cycles)
    /\ Len(daily_temperature_data') = Len(daily_temperature_data)
    /\ Len(daily_user_inputs') = Len(daily_user_inputs)
    /\ Len(daily_weather_data') = Len(daily_weather_data)
    /\ Len(historical_daily_data') = Len(historical_daily_data)

\* C15: a poll during which the temperature, HVAC or thermostat entity is
\* missing from the state store appends no reading, changes the length of no
\* buffer and posts no request.
C15_MissingEntityNoReading ==
    [][/\ PollStep
       /\ \E role \in {"temperature_entity", "hvac_entity", "thermostat_entity"} :
             sensor_states[role] = NoSensorState
       => /\ pending_readings' = pending_readings
          /\ BuffersKeepLength
          /\ ~BatchPosted]_vars

\* polls have run without the HVAC entity, with every other entity in a valid
\* state, and the only reading is the one from before
C15_Witness ==
    /\ poll_count = 2
    /\ sensor_states.hvac_entity = NoSensorState
    /\ sensor_states.temperature_entity.state = "70.0"
    /\ sensor_states.thermostat_entity.attributes = MakeAttributes(None, None, <<Some(700)>>)
    /\ pending_readings = <<>>

\* the mandatory numbers of a poll: the indoor temperature parses and the
\* thermostat carries a target temperature that is a number
MandatoryValid(states) ==
    /\ IsKnown(ParseFloat(states.temperature_entity.state))
    /\ "temperature" \in DOMAIN states.thermostat_entity.attributes
    /\ IsKnown(states.thermostat_entity.attributes.temperature)

\* C16: a poll in which the indoor temperature state or the thermostat's
\* target temperature attribute is missing, absent or not a number appends
\* no reading.
C16_InvalidMandatoryNoReading ==
    [][PollStep /\ ~MandatoryValid(sensor_states) => pending_readings' = pending_readings]_vars

\* the humidity value is absent, unknown, unavailable or not a number
HumidityMissing(states) ==
    \/ states.humidity_entity \in {NotConfigured, NoSensorState}
    \/ states.humidity_entity.state \in {"unknown", "unavailable"}
    \/ ~IsKnown(ParseFloat(states.humidity_entity.state))

\* every required entity has a state
RequiredPresent(states) ==
    \A role \in {"temperature_entity", "hvac_entity", "thermostat_entity"} : states[role] # NoSensorState

\* C17: a poll whose humidity value is absent, unknown, unavailable or not a
\* number, and whose mandatory fields are valid, appends exactly one reading,
\* with indoor_humidity None.
C17_HumidityOptional ==
    [][PollStep /\ RequiredPresent(sensor_states) /\ MandatoryValid(sensor_states)
                /\ HumidityMissing(sensor_states)
          => /\ ReadingAppended
             /\ Last(pending_readings').indoor_humidity = NoNumber
             /\ Last(pending_readings').indoor_temp = ValueOf(ParseFloat(sensor_states.temperature_entity.state))]_vars

\* two polls with a humidity state that is no number have each appended a
\* reading without humidity
C17_Witness ==
    /\ poll_count = 2
    /\ sensor_states.humidity_entity # NoSensorState
    /\ sensor_states.humidity_entity.state = "n/a"
    /\ Len(pending_readings) = 3
    /\ \A i \in 1..3 : pending_readings[i].indoor_humidity = NoNumber /\ pending_readings[i].indoor_temp = 700

\* the HVAC entity is a climate entity
IsClimate(states) == states.hvac_entity # NoSensorState /\ states.hvac_entity.entity_id = "climate.hvac"

\* C18: for a climate HVAC entity with an hvac_action attribute the recorded
\* hvac_state follows the attribute alone: heating gives HEAT, cooling gives
\* COOL, anything else gives OFF.
C18_ActionAttributeFirst ==
    [][PollStep /\ ReadingAppended /\ IsClimate(sensor_states)
                /\ "hvac_action" \in DOMAIN sensor_states.hvac_entity.attributes
          => LET hvac_action == sensor_states.hvac_entity.attributes.hvac_action
             IN  Last(pending_readings').hvac_state =
                    (IF hvac_action = "heating" THEN "HEAT"
                     ELSE IF hvac_action = "cooling" THEN "COOL"
                     ELSE "OFF")]_vars

\* a climate HVAC entity in auto mode whose action attribute is missing, idle,
\* off or fan, with a target and a current temperature that are numbers
IsAutoInference(states) ==
    /\ IsClimate(states)
    /\ LET attributes == states.hvac_entity.attributes
       IN  /\ "hvac_action" \in DOMAIN attributes => attributes.hvac_action \in {"idle", "off", "fan"}
           /\ IF "hvac_mode" \in DOMAIN attributes
              THEN attributes.hvac_mode = "auto"
              ELSE states.hvac_entity.state = "auto"
           /\ "temperature" \in DOMAIN attributes
           /\ IsKnown(attributes.temperature)
    /\ IsKnown(ParseFloat(states.temperature_entity.state))

\* C19: in auto mode without a decisive action attribute the recorded state
\* follows d = target - current: HEAT above 0.5, COOL below -0.5, OFF from
\* -0.5 to 0.5; and every recorded hvac_state is HEAT, COOL or OFF.
C19_AutoDeadBand ==
    [][PollStep /\ ReadingAppended
          => /\ Last(pending_readings').hvac_state \in {"HEAT", "COOL", "OFF"}
             /\ IsAutoInference(sensor_states)
                => LET d == ValueOf(sensor_states.hvac_entity.attributes.temperature)
                            - ValueOf(ParseFloat(sensor_states.temperature_entity.state))
                   IN  Last(pending_readings').hvac_state =
                          (IF d > 5 THEN "HEAT" ELSE IF d < -5 THEN "COOL" ELSE "OFF")]_vars

(***************************************************************************)
(* Properties of the send outcomes of SimpleDataCollector.                 *)
(***************************************************************************)
\* a request of SimpleDataCollector ends in a failure
RequestFails ==
    \/ \E caller \in Callers, outcome \in Failures : FinishSendSensorBatch(caller, outcome)
    \/ \E outcome \in Failures : FinishSendDailySummary(outcome)

\* C21: no send outcome stops the collection: a failed request of
\* _send_sensor_batch or _send_daily_summary leaves the timers subscribed, and
\* every poll after a failure that finds valid sensors appends a reading.
C21_FailuresDoNotStopCollection ==
    [][/\ RequestFails => _unsub' = _unsub
       /\ failed_at # -1 /\ PollStep /\ RequiredPresent(sensor_states) /\ MandatoryValid(sensor_states)
             => ReadingAppended]_vars

\* a request has failed, the timers are subscribed and a later poll has
\* appended its reading
C21_Witness ==
    /\ failed_at # -1
    /\ poll_count > failed_at
    /\ \A timer \in DOMAIN _unsub : _unsub[timer] = "subscribed"
    /\ pending_readings # <<>>
    /\ Last(pending_readings).timestamp = poll_count

(***************************************************************************)
(* Properties of the collection level.                                     *)
(***************************************************************************)
\* the event types queued so far
QueuedEventTypes == {data_queue[i].event_type : i \in 1..Len(data_queue)}

\* C22: the collection level gates the event types that enter data_queue:
\* at minimal only user_input; temperature_change and hvac_action only at
\* standard or detailed; thermal_learning and weather_update only at detailed.
C22_LevelGatesEvents ==
    /\ collection_level = "minimal" => QueuedEventTypes \subseteq {EVENT_USER_INPUT}
    /\ QueuedEventTypes \cap {EVENT_TEMPERATURE_CHANGE, EVENT_HVAC_ACTION} # {}
          => collection_level \in {"standard", "detailed"}
    /\ QueuedEventTypes \cap {EVENT_THERMAL_LEARNING, EVENT_WEATHER_UPDATE} # {}
          => collection_level = "detailed"

\* at level minimal the thermostat, the HVAC switch and the weather sensor
\* have changed state and a service was called: only the call is queued
C22_Witness ==
    /\ collection_level = "minimal"
    /\ \A e \in ClimateEntities \cup MonitoredWeatherEntities : _last_states[e] # NoState
    /\ _last_states["switch.curve_control_hvac"].hvac_action = "heating"
    /\ Len(data_queue) = 1
    /\ data_queue[1].event_type = EVENT_USER_INPUT

(***************************************************************************)
(* Properties of the day rollover and of the daily summary.                *)
(***************************************************************************)
\* C23: every cycle, temperature point, user input and weather sample
\* recorded into the aggregator is counted in exactly one daily summary: when
\* a rollover completes, the summary it stores counts everything the buffers
\* hold at the reset, also what was recorded while the report was being sent.
C23_EveryItemInOneSummary ==
    [][RolloverCompletes =>
          LET daily_summary == daily_report.daily_summary
          IN  /\ daily_summary.hvac_cycles.total_cycles = Len(daily_hvac_cycles)
              /\ daily_summary.user_inputs.total_inputs = Len(daily_user_inputs)
              /\ daily_summary.temperature_data = SummarizeTemperatureData(daily_temperature_data)
              /\ daily_summary.weather_data = SummarizeWeatherData(daily_weather_data)]_vars

\* C24: a daily summary stored in the historical window is never changed
\* afterwards: record calls, buffer resets and rollovers leave every stored
\* summary as it was when it was appended.
C24_StoredSummaryFrozen ==
    [][\A i \in 1..Len(historical_daily_data) :
          /\ i <= Len(historical_daily_data')
          /\ historical_daily_data'[i] = historical_daily_data[i]]_vars

\* the first stored summary counts the one input of its day, after a second
\* input was recorded, the buffers were reset twice and a second summary was
\* stored
C24_Witness ==
    /\ Len(historical_daily_data) = 2
    /\ historical_daily_data[1].user_inputs.total_inputs = 1
    /\ historical_daily_data[2].user_inputs.total_inputs = 1
    /\ daily_user_inputs = <<>>

\* the report in flight of the summary specification: the buffers still hold
\* what its summary was aggregated from
SummaryInFlight == daily_report # NoReport /\ today = 2

\* the runtimes of the recorded cycles, in hundredths of a minute
RecordedRuntimes == [i \in 1..Len(daily_hvac_cycles) |-> daily_hvac_cycles[i].duration_minutes]

\* C25: the HVAC summary of a day without cycles has every statistic 0; with
\* n > 0 cycles the average cycle length is the total runtime divided by n
\* (to the 2 decimals kept).
C25_HvacSummary ==
    SummaryInFlight =>
        LET hvac_summary == daily_report.daily_summary.hvac_cycles
            n == Len(daily_hvac_cycles)
        IN  /\ n = 0 => \A key \in DOMAIN hvac_summary : hvac_summary[key] = 0
            /\ DOMAIN hvac_summary = {"total_cycles", "heating_cycles", "cooling_cycles",
                                      "total_runtime_minutes", "heating_runtime_minutes",
                                      "cooling_runtime_minutes", "average_cycle_length_minutes"}
            /\ n > 0 => /\ hvac_summary.total_cycles = n
                        /\ hvac_summary.total_runtime_minutes = SeqSum(RecordedRuntimes)
                        /\ 2 * Abs(n * hvac_summary.average_cycle_length_minutes - SeqSum(RecordedRuntimes)) <= n

\* a day with user inputs and no cycle is being reported, with an HVAC
\* summary of zeros
C25_Witness ==
    /\ SummaryInFlight
    /\ daily_hvac_cycles = <<>>
    /\ Len(daily_user_inputs) = 2
    /\ daily_report.daily_summary.hvac_cycles.average_cycle_length_minutes = 0
    /\ daily_report.daily_summary.hvac_cycles.total_cycles = 0

\* the values of a field of the recorded observations that are not missing
RecordedValues(field) ==
    LET present == SelectSeq(daily_temperature_data, LAMBDA d : IsKnown(d[field]))
    IN  [i \in 1..Len(present) |-> ValueOf(present[i][field])]

\* entry (min and max in thousandths, avg in hundredths) gives the minimum,
\* the maximum and the mean, to 2 decimals, of the values
IsStatsOf(entry, values) ==
    /\ entry.min = SeqMin(values)
    /\ entry.max = SeqMax(values)
    /\ 2 * Abs(10 * Len(values) * entry.avg - SeqSum(values)) <= 10 * Len(values)

\* C26: actual_temperature of the temperature summary gives the minimum, the
\* maximum and the mean of all recorded current_temp values that are not
\* missing, those of 0 included, and readings_count is their number.
C26_ActualTemperatureStats ==
    SummaryInFlight /\ RecordedValues("current_temp") # <<>> =>
        LET temp_summary == daily_report.daily_summary.temperature_data
        IN  /\ "actual_temperature" \in DOMAIN temp_summary
            /\ IsStatsOf(temp_summary.actual_temperature, RecordedValues("current_temp"))
            /\ temp_summary.actual_temperature.readings_count = Len(RecordedValues("current_temp"))

\* the key of the temperature summary for a field of the observations
SummaryKey(field) ==
    CASE field = "current_temp" -> "actual_temperature"
      [] field = "target_temp" -> "target_temperature"
      [] field = "humidity" -> "humidity"

\* C27: the temperature summary has the entry of a field (actual_temperature,
\* target_temperature, humidity) if and only if at least one recorded
\* observation has a value for the field.
C27_EntryIffSamples ==
    SummaryInFlight =>
        \A field \in {"current_temp", "target_temp", "humidity"} :
            SummaryKey(field) \in DOMAIN daily_report.daily_summary.temperature_data
            <=> RecordedValues(field) # <<>>

\* the number of recorded inputs of a service
InputsOf(service) == Cardinality({i \in 1..Len(daily_user_inputs) : daily_user_inputs[i].service = service})

\* C28: the user-input summary gives one count per service name and a total
\* equal to the number of recorded inputs; without inputs it gives total 0
\* and an empty mapping from service to count, with the keys of the
\* non-empty case.
C28_UserInputSummary ==
    SummaryInFlight =>
        LET user_summary == daily_report.daily_summary.user_inputs
            services == {daily_user_inputs[i].service : i \in 1..Len(daily_user_inputs)}
        IN  /\ user_summary.total_inputs = Len(daily_user_inputs)
            /\ user_summary.services_used.kind = "dict"
            /\ DOMAIN user_summary.services_used.counts = services
            /\ \A service \in services : user_summary.services_used.counts[service] = InputsOf(service)
            /\ DOMAIN user_summary = {"total_inputs", "services_used", "unique_services"}

\* the recorded weather conditions, in order
RecordedConditions == [i \in 1..Len(daily_weather_data) |-> daily_weather_data[i].condition]

\* how often a condition was recorded
Occurrences(condition) == Cardinality({i \in 1..Len(RecordedConditions) : RecordedConditions[i] = condition})

\* where a condition was recorded first
FirstRecorded(condition) ==
    CHOOSE i \in 1..Len(RecordedConditions) :
        /\ RecordedConditions[i] = condition
        /\ \A j \in 1..(i - 1) : RecordedConditions[j] # condition

\* C29: primary_condition of the weather summary is the condition recorded
\* most often, and among conditions recorded equally often the one that was
\* recorded first.
C29_PrimaryCondition ==
    SummaryInFlight /\ daily_weather_data # <<>> =>
        LET primary == daily_report.daily_summary.weather_data.primary_condition
        IN  /\ Occurrences(primary) > 0
            /\ \A i \in 1..Len(RecordedConditions) :
                  LET other == RecordedConditions[i]
                  IN  \/ Occurrences(other) < Occurrences(primary)
                      \/ /\ Occurrences(other) = Occurrences(primary)
                         /\ FirstRecorded(primary) <= FirstRecorded(other)

\* sunny then rainy were recorded, once each: the primary condition is sunny
C29_Witness ==
    /\ SummaryInFlight
    /\ RecordedConditions = <<"sunny", "rainy">>
    /\ daily_report.daily_summary.weather_data.primary_condition = "sunny"

\* C30: the midnight summary of SimpleDataCollector keeps user_inputs_today
\* whenever the summary was not accepted, after a non-200 response as after a
\* timeout or a network error, and clears it only after a 200 response.
C30_UserInputsKeptUnlessAccepted ==
    [][\A outcome \in SendOutcomes :
          FinishSendDailySummary(outcome) =>
              user_inputs_today' = IF outcome = "200" THEN <<>> ELSE user_inputs_today]_vars

(***************************************************************************)
(* Properties of the readings in flight and of the manual trigger.         *)
(***************************************************************************)
\* the reading is one of the sequence
IsReadingOf(reading, readings) == \E j \in 1..Len(readings) : readings[j] = reading

\* C31: every reading appended to pending_readings stays there until it was
\* in the body of a request answered with 200: a reading collected while a
\* request is in flight is not removed by the success of that request.
C31_ReadingSentOrPending ==
    [][\A i \in 1..Len(pending_readings) :
          \/ IsReadingOf(pending_readings[i], pending_readings')
          \/ /\ last_outcome' = "200"
             /\ IsReadingOf(pending_readings[i], last_payload)]_vars

\* C32: only a reading collected by trigger_manual_reading itself is sent at
\* once: a manual trigger whose poll aborts leaves the flag as it was, and a
\* scheduled poll posts no request.
C32_OnlyManualReadingSentAtOnce ==
    [][/\ TriggerManualReading /\ pending_readings' = pending_readings
          => _manual_trigger' = _manual_trigger
       /\ TimedCollectReading => sensor_batch' = sensor_batch]_vars

(***************************************************************************)
(* Properties of the collection statistics.                                *)
(***************************************************************************)
\* C39: get_collection_stats reports collection_active and
\* daily_summary_active as true exactly while the collector is running: false
\* before async_start, true after it, false again after async_stop.
C39_ActiveWhileRunning ==
    /\ GetCollectionStats.collection_active <=> _unsub["5min"] = "subscribed"
    /\ GetCollectionStats.daily_summary_active <=> _unsub["midnight"] = "subscribed"

(***************************************************************************)
(* Properties of the path from the state-change handler to the aggregator. *)
(***************************************************************************)
\* the handler is given a new, available state of the entity in this step
Delivered(e) ==
    /\ hass_states'[e] # hass_states[e]
    /\ hass_states'[e] # NoState
    /\ hass_states'[e].state \notin {STATE_UNAVAILABLE, STATE_UNKNOWN}

\* the last two states delivered for the thermostat, which are the last two
\* records of the temperature buffer, were idle and then heating
WentIdleThenHeating(e) ==
    LET n == Len(daily_temperature_data)
    IN  /\ n >= 2
        /\ daily_temperature_data[n - 1].entity_id = e
        /\ daily_temperature_data[n - 1].hvac_action = "idle"
        /\ daily_temperature_data[n].entity_id = e
        /\ daily_temperature_data[n].hvac_action = "heating"
        /\ hass_states[e].hvac_action = "heating"

\* C33: for a monitored entity whose id starts with "climate.", the change
\* idle -> heating -> idle of hvac_action, delivered through the state-change
\* handler at level standard or detailed, records one cycle.
C33_ClimateCycleRecorded ==
    [][\A e \in ClimateEntities :
          /\ collection_level \in {"standard", "detailed"}
          /\ WentIdleThenHeating(e)
          /\ Delivered(e)
          /\ hass_states'[e].hvac_action = "idle"
          => OneCycleAppended]_vars

\* C34: what is recorded into the aggregator does not depend on the
\* collection level: at every level a heating -> idle change of the HVAC
\* switch, which was idle before it heated, records its cycle, a delivered
\* thermostat state records a temperature point, a delivered weather state a
\* weather sample and a curve_control service call a user input.
C34_AggregatorIgnoresLevel ==
    [][/\ /\ hass_states["switch.curve_control_hvac"].hvac_action = "heating"
          /\ Delivered("switch.curve_control_hvac")
          /\ hass_states'["switch.curve_control_hvac"].hvac_action = "idle"
          => OneCycleAppended
       /\ \A e \in ClimateEntities :
             Delivered(e) => Len(daily_temperature_data') = Len(daily_temperature_data) + 1
       /\ \A e \in MonitoredWeatherEntities :
             Delivered(e) => Len(daily_weather_data') = Len(daily_weather_data) + 1
       /\ \A call \in Services, delay \in Delays :
             AsyncServiceCalled(call, delay) /\ call.domain = "curve_control"
             => Len(daily_user_inputs') = Len(daily_user_inputs) + 1]_vars

\* the handler is given a missing, unavailable or unknown new state of e
DeliveredUnusable(e) ==
    /\ hass_states'[e] # hass_states[e]
    /\ \/ hass_states'[e] = NoState
       \/ hass_states'[e].state \in {STATE_UNAVAILABLE, STATE_UNKNOWN}

\* the last state of e the handler used was heating, the cycle it opened is
\* still open, and e has been unavailable since
HeatingThenUnavailable(e) ==
    /\ hass_states[e] = UnavailableState
    /\ _last_states[e] # NoState
    /\ _last_states[e].hvac_action = "heating"
    /\ _last_hvac_action = "heating"
    /\ IsKnown(_hvac_cycle_start)
    /\ IsKnown(_hvac_cycle_start_temp)

\* C35: a state-change event whose new state is missing, unavailable or
\* unknown changes nothing in the collector (queue, aggregator buffers, cycle
\* tracker, _last_states), and heating -> unavailable -> idle records the
\* heating cycle when the idle state, with a known temperature, arrives.
C35_UnavailableKeepsOpenCycle ==
    [][\A e \in HvacEntities :
          /\ DeliveredUnusable(e)
             => UNCHANGED <<data_queue, _last_states, trackerVars, daily_temperature_data,
                            daily_weather_data, daily_user_inputs>>
          /\ /\ collection_level \in {"standard", "detailed"}
             /\ HeatingThenUnavailable(e)
             /\ Delivered(e)
             /\ hass_states'[e].hvac_action = "idle"
             /\ IsKnown(hass_states'[e].current_temperature)
             => OneCycleAppended]_vars

\* this step calls the tracker with the end of the heating cycle that the
\* latest tracker call, on an earlier day, opened for the same entity
ClosesCycleOfEarlierDay(e) ==
    /\ TrackerCalled(e)
    /\ IsLatestCall(e)
    /\ IsChange(last_call[e], "idle", "heating")
    /\ IsKnown(last_call[e].current_temp)
    /\ last_call[e].day < today
    /\ IsChange(last_call'[e], "heating", "idle")
    /\ IsKnown(last_call'[e].current_temp)

\* the cycle buffer is the buffer of the current day: no rollover is waiting
\* for its send before it resets the buffer
BufferIsOfToday == daily_report = NoReport

\* C36: a cycle that opens before a day rollover and closes after it is
\* recorded once, in the buffer of the day in which it closes, from its
\* original start to its end; the steps of the rollover leave the open cycle
\* of the tracker as it is.
C36_CycleAcrossRollover ==
    [][/\ \A e \in HvacEntities :
             ClosesCycleOfEarlierDay(e)
             => /\ OneCycleAppended
                /\ BufferIsOfToday
                /\ Last(daily_hvac_cycles').start_time = last_call[e].at
                /\ Last(daily_hvac_cycles').end_time = now'
                /\ IsMinutesOf(Last(daily_hvac_cycles').duration_minutes, now' - last_call[e].at)
       /\ today' # today \/ RolloverCompletes
          => UNCHANGED <<_last_hvac_action, _hvac_cycle_start, _hvac_cycle_start_temp>>]_vars

\* C37: the moving averages of a daily report are those of the window as it
\* is while the report is sent, which holds summaries of earlier days only
\* and not the summary of the report; the reports of the first two rollovers,
\* sent while the window holds fewer than 2 summaries, carry no averages.
C37_AveragesFromEarlierDays ==
    ReportInFlight =>
        /\ \A i \in 1..Len(historical_daily_data) :
              historical_daily_data[i].date < daily_report.daily_summary.date
        /\ daily_report.moving_averages = CalculateMovingAverages(historical_daily_data)
        /\ Len(historical_daily_data) < 2 => daily_report.moving_averages = EmptyMapping

\* the report of the second rollover is in flight: the stored summary of the
\* first day and the summary in the report both have a heating rate, and the
\* report carries no averages
C37_Witness ==
    /\ ReportInFlight
    /\ Len(historical_daily_data) = 1
    /\ Qualifying(historical_daily_data, "heating_rate") = {1}
    /\ IsKnown(Get(daily_report.daily_summary.thermal_rates, "heating_rate_learned"))
    /\ daily_report.moving_averages = EmptyMapping

\* C38: every rollover, when its send has ended in whatever way, appends the
\* summary it computed to the historical window (dropping the oldest summary
\* of a full window) and restarts the day buffers: no cycle and no user input
\* is left, and the temperature and weather buffers hold the baseline of the
\* new day only.
C38_RolloverIgnoresSendOutcome ==
    [][RolloverCompletes =>
          /\ historical_daily_data' # <<>>
          /\ Last(historical_daily_data') = daily_report.daily_summary
          /\ Len(historical_daily_data) < DAILY_DATA_RETENTION_DAYS
             => historical_daily_data' = Append(historical_daily_data, daily_report.daily_summary)
          /\ Len(historical_daily_data) >= DAILY_DATA_RETENTION_DAYS
             => /\ Len(historical_daily_data') = DAILY_DATA_RETENTION_DAYS
                /\ \A i \in 1..(DAILY_DATA_RETENTION_DAYS - 1) :
                      historical_daily_data'[i] = historical_daily_data[i + 1]
          /\ daily_hvac_cycles' = <<>>
          /\ daily_user_inputs' = <<>>
          /\ daily_temperature_data' = BaselineTemperatureData(hass_states, now)
          /\ daily_weather_data' = BaselineWeatherData(hass_states, now)]_vars

\* two rollovers have completed, the midnight one of a day with one user
\* input and the one of the cleanup: the window holds their two summaries
\* and the buffers hold no cycle and no input
C38_Witness ==
    /\ daily_report = NoReport
    /\ ~_midnight_timer
    /\ Len(historical_daily_data) = 2
    /\ historical_daily_data[1].user_inputs.total_inputs = 1
    /\ historical_daily_data[2].user_inputs.total_inputs = 0
    /\ daily_hvac_cycles = <<>>
    /\ daily_user_inputs = <<>>

====
